---------------------------- MODULE Spec2Model ----------------------------
(***************************************************************************)
(* A model of the semantic-indexing core of ai-changelog:                  *)
(*   - OllamaEmbeddingsBalancer (src/src/utils/rag.ts 780-918): the        *)
(*     round-robin pool with per-call failover;                            *)
(*   - RAGService (src/src/utils/rag.ts 21-627): the content-addressed     *)
(*     embedding cache, the batch pipeline with its worker pool, and the   *)
(*     in-memory vector store.                                             *)
(*   - RAGService.findAffectedFileCandidates (rag.ts 519-608): the search  *)
(*     for the files a change may affect;                                  *)
(*   - ChangelogGenerator.analyzeImpactWithLangChainTools                  *)
(*     (src/src/utils/ollama-balancer.ts 441-641): the tool-calling loop;  *)
(*   - RAGService.searchRelevantCode, clear and extractIdentifiers;        *)
(*   - CodeAnalysisTools.getTools, readFile, searchCode and clearCache     *)
(*     (src/src/utils/changelog.ts 148-185, 414-433, 523-577, 675-678);    *)
(*   - ChangelogGenerator.generate, generateFallback and                   *)
(*     generateWithFallback (src/src/utils/changelog.ts 51-138);           *)
(*   - GitHubService.getPreviousRelease (src/src/utils/github.ts 75-102);  *)
(*   - run() of the action (src/src/action.ts 40-241);                     *)
(*   - ChangelogGenerator.analyzeImpactWithTools, the deprecated loop      *)
(*     (src/src/utils/ollama-balancer.ts 645-878).                         *)
(* The specifications share the variables: SpecPool drives the balancer,   *)
(* Spec drives RAGService.indexFiles, SpecCache drives it over files of    *)
(* one content and a cache directory that may come back damaged,           *)
(* SpecCandidates drives findAffectedFileCandidates and SpecRanking does   *)
(* so on large releases, SpecSearch the searches with the index built,     *)
(* failed or cleared, SpecAgent the tool-calling loop, SpecTools the tool  *)
(* set and the file memo, SpecExtract the identifier extraction,           *)
(* SpecGenerator the changelog generator, SpecReleases the release         *)
(* lookup, SpecWorkflow run() and SpecLegacy the deprecated loop.          *)
(***************************************************************************)
EXTENDS Integers, Sequences, FiniteSets, TLC

(* ------------------------------ bounds -------------------------------- *)
\* Largest number of servers of a balancer driven on its own (SpecPool).
MaxServers == 3
\* Largest number of server URLs configured for a RAGService (Spec).
MaxServerUrls == 2
\* Longest fileChanges list handed to indexFiles and to
\* findAffectedFileCandidates.
MaxFiles == 2
\* Number of files of the code base indexed before the candidate search.
MaxIndexed == 8
\* Largest number of tool calls one backend response carries.
MaxToolCalls == 2
\* The most distinct names the patterns capture in a generated text.
MaxMatches == 22
\* The most commits and pull requests of a release.
MaxCommits == 22
MaxPRs == 1
\* The changed files of a large release handed to the candidate search.
MaxChanged == 7
\* Longest list of releases listReleases answers with.
MaxReleases == 3
\* The most content fetches counted for one path between two clearCache.
MaxFetches == 2

(* ------------------------- program constants -------------------------- *)
\* const BATCH_SIZE = 20;
BATCH_SIZE == 20
\* const MAX_ITERATIONS = 40;
MAX_ITERATIONS == 40

(* ------------------------------ helpers ------------------------------- *)
Min(a, b) == IF a < b THEN a ELSE b

Range(s) == {s[i] : i \in DOMAIN s}

\* Array.prototype.slice(from, to) on a 0-based array held as a sequence.
Slice(s, from, to) == SubSeq(s, from + 1, Min(to, Len(s)))

NoDup(s) == \A i, j \in DOMAIN s : i # j => s[i] # s[j]

VARIABLES
    \* ---- OllamaEmbeddingsBalancer ----
    nServers,       \* this.servers.length
    healthy,        \* the servers whose embed request succeeds
    currentIndex,   \* this.currentIndex, the round-robin cursor
    calls,          \* the embedQuery / embedDocuments calls, by call slot
    picks,          \* history: the last 2N indices getNextServer returned
    \* ---- RAGService ----
    embeddingModel, \* this.config.embeddingModel
    cache,          \* .cache/embeddings: digest -> CachedEmbedding
    vectorStore,    \* this.vectorStore
    call,           \* the locals of the createDocumentsWithEmbeddings call
    workers,        \* the pipeline workers of that call, by workerId
    hist,           \* history of the call, for stating the properties
    yielded,        \* history: per digest, what the run that wrote the
                    \* entry returned for that file (chunk texts, vectors)
    finder,         \* the locals of the findAffectedFileCandidates call
    \* ---- ChangelogGenerator ----
    agent,          \* the locals of analyzeImpactWithLangChainTools and
                    \* what its caller generateWithTools receives
    gen,            \* the generate / generateWithFallback call
    \* ---- RAGService, further calls ----
    search,         \* the searchRelevantCode call
    ext,            \* the extractIdentifiers call
    \* ---- CodeAnalysisTools ----
    tools,          \* the CodeAnalysisTools object and its getTools results
    \* ---- GitHubService ----
    github,         \* the getPreviousRelease call
    \* ---- action.ts ----
    workflow,       \* the position and the locals of run()
    \* ---- ChangelogGenerator, deprecated agent ----
    legacy          \* the locals of analyzeImpactWithTools

poolVars == <<nServers, healthy, currentIndex, calls, picks>>
ragVars == <<embeddingModel, cache, vectorStore, call, workers, hist, yielded>>
vars == <<nServers, healthy, currentIndex, calls, picks,
          embeddingModel, cache, vectorStore, call, workers, hist, yielded,
          finder, agent, gen, search, ext, tools,
          github, workflow, legacy>>
moreVars == <<github, workflow, legacy>>
restVars == <<gen, search, ext, tools, moreVars>>

(* ====================================================================== *)
(*                       OllamaEmbeddingsBalancer                         *)
(* ====================================================================== *)
Servers == 0 .. (nServers - 1)
\* The callers that may have an embed call in progress on the balancer.
CallIds == {"x", "y"}

\* A cursor that is never advanced.
NextIndexStuck(i, n) == i

\* A cursor advanced without wrapping.
NextIndexNoWrap(i, n) == i + 1

\* this.currentIndex = (this.currentIndex + 1) % this.servers.length
NextIndex(i, n) == (i + 1) % n

\* getNextServer(): returns the server at the cursor and advances the cursor.
getNextServer == [index |-> currentIndex, next |-> NextIndex(currentIndex, nServers)]

\* The history of selections keeps the last 2N of them.
Remember(idx) ==
    LET p == Append(picks, idx)
    IN  IF Len(p) > 2 * nServers THEN Tail(p) ELSE p

IdleCall ==
    [pc |-> "idle", attempt |-> 0, server |-> 0, tried |-> <<>>,
     lastError |-> -1, result |-> -1, alone |-> TRUE]

InProgress(c) == calls[c].pc = "await"

\* The synchronous start of embedQuery / embedDocuments, which follow one
\* protocol: maxRetries is servers.length >= 1, so attempt 0 selects a
\* server and awaits its reply.
BalancerStart(c) ==
    /\ calls[c].pc = "idle"
    /\ LET sel == getNextServer
           others == {d \in CallIds : d # c /\ InProgress(d)}
       IN  /\ currentIndex' = sel.next
           /\ picks' = Remember(sel.index)
           /\ calls' = [d \in CallIds |->
                 IF d = c
                 THEN [pc |-> "await", attempt |-> 0,
                       server |-> sel.index, tried |-> <<sel.index>>,
                       lastError |-> -1, result |-> -1,
                       alone |-> (others = {})]
                 ELSE IF d \in others
                      THEN [calls[d] EXCEPT !.alone = FALSE]
                      ELSE calls[d]]
    /\ UNCHANGED <<nServers, healthy>>
    /\ UNCHANGED <<ragVars, finder, agent, restVars>>

\* override async embedQuery(text)
embedQuery(c) == BalancerStart(c)

\* override async embedDocuments(texts)
embedDocuments(c) == BalancerStart(c)

\* The awaited server answers: return embedding / embeddings.
ServerSucceeds(c) ==
    /\ InProgress(c)
    /\ calls[c].server \in healthy
    /\ calls' = [calls EXCEPT ![c].pc = "returned",
                              ![c].result = calls[c].server]
    /\ UNCHANGED <<nServers, healthy, currentIndex, picks>>
    /\ UNCHANGED <<ragVars, finder, agent, restVars>>

\* The awaited server throws: catch, lastError = error, next attempt of the
\* for loop (which selects the next server) or, after maxRetries attempts,
\* throw lastError.
ServerFails(c) ==
    /\ InProgress(c)
    /\ calls[c].server \notin healthy
    /\ LET attempt == calls[c].attempt + 1
           sel == getNextServer
       IN  IF attempt < nServers
           THEN /\ currentIndex' = sel.next
                /\ picks' = Remember(sel.index)
                /\ calls' = [calls EXCEPT
                      ![c].attempt = attempt,
                      ![c].lastError = calls[c].server,
                      ![c].server = sel.index,
                      ![c].tried = Append(calls[c].tried, sel.index)]
           ELSE /\ calls' = [calls EXCEPT
                      ![c].attempt = attempt,
                      ![c].lastError = calls[c].server,
                      ![c].pc = "thrown"]
                /\ UNCHANGED <<currentIndex, picks>>
    /\ UNCHANGED <<nServers, healthy>>
    /\ UNCHANGED <<ragVars, finder, agent, restVars>>

\* The caller has taken the outcome; the slot is free for its next call.
CallerContinues(c) ==
    /\ calls[c].pc \in {"returned", "thrown"}
    /\ calls' = [calls EXCEPT ![c] = IdleCall]
    /\ UNCHANGED <<nServers, healthy, currentIndex, picks>>
    /\ UNCHANGED <<ragVars, finder, agent, restVars>>

NextPool ==
    \E c \in CallIds :
        \/ embedQuery(c)
        \/ embedDocuments(c)
        \/ ServerSucceeds(c)
        \/ ServerFails(c)
        \/ CallerContinues(c)


(* ====================================================================== *)
(*                              RAGService                                *)
(* ====================================================================== *)
Models == {"m1", "m2"}

\* An absent property of a JavaScript object.
Undefined == "undefined"
\* null, as a value of a field or of a result.
Null == "null"

\* FileChange values handed to indexFiles.  A content is a name for a text;
\* "" is the empty (falsy) content, and "" is the absent patch.
FileA == [filename |-> "a.ts", status |-> "modified", content |-> "c1",
          patch |-> "pa", changes |-> 3]
FileC == [filename |-> "c.ts", status |-> "modified", content |-> "c3",
          patch |-> "", changes |-> 9]
FileD == [filename |-> "d.ts", status |-> "removed", content |-> "",
          patch |-> "pd", changes |-> 2]
\* The value of an array read past its end, as `file?.content` sees it.
NoFile == [filename |-> Undefined, status |-> Undefined, content |-> "",
           patch |-> "", changes |-> 0]
FilePool == {FileA, FileC, FileD}
\* A file added elsewhere with the content of FileA, and a copy of it that
\* comes without a patch.
FileE == [filename |-> "e.ts", status |-> "added", content |-> "c1",
          patch |-> "pe", changes |-> 4]
FileF == [filename |-> "f.ts", status |-> "renamed", content |-> "c1",
          patch |-> "", changes |-> 0]
SharedPool == {FileA, FileE, FileF}

\* The lists of at most MaxFiles distinct files of a pool.
ListsOver(pool) ==
    {fl \in UNION {[1 .. n -> pool] : n \in 0 .. MaxFiles} : NoDup(fl)}

FileLists == ListsOver(FilePool)

\* The number of chunks RecursiveCharacterTextSplitter cuts a content into
\* (a function of the content and the configured chunkSize / chunkOverlap).
SegCount(content) ==
    CASE content = "c1" -> 1
      [] content = "c2" -> 2
      [] content = "c3" -> 2 * BATCH_SIZE + 1
      [] OTHER -> 0

\* this.textSplitter.createDocuments([content], [metadata])
createDocuments(content, metadata) ==
    [i \in 1 .. SegCount(content) |->
        [pageContent |-> [kind |-> "seg", src |-> content, n |-> i,
                          st |-> "", patch |-> ""],
         metadata |-> metadata]]

\* createHash("sha256").update(content).digest("hex"), taken as injective.
calculateHash(content) == <<"sha256", content>>

\* The vector the embedding backend computes for a text under a model.
Embed(model, text) == [model |-> model, of |-> text]

\* The metadata the miss path gives the chunks of a file.
FileMeta(file) ==
    [filename |-> file.filename, status |-> file.status, type |-> Undefined,
     changes |-> ToString(file.changes)]

\* new Document({pageContent: `파일: ...Diff:\n${file.patch}`, metadata: {...}})
PatchDoc(file) ==
    [pageContent |-> [kind |-> "diff", src |-> file.filename, n |-> 0,
                      st |-> file.status, patch |-> file.patch],
     metadata |-> [filename |-> file.filename, status |-> file.status,
                   type |-> "diff", changes |-> Undefined]]

\* The chunks of one cache-miss file: the splitter's chunks, then the diff
\* chunk when the file has a patch.
MissChunks(file) ==
    createDocuments(file.content, FileMeta(file))
        \o (IF file.patch # "" THEN <<PatchDoc(file)>> ELSE <<>>)

\* A lookup that accepts an entry whatever model wrote it.
loadFromCacheAnyModel(hash) ==
    IF hash \notin DOMAIN cache
    THEN [hit |-> FALSE, documents |-> <<>>, embeddings |-> <<>>]
    ELSE [hit |-> TRUE, documents |-> cache[hash].documents,
          embeddings |-> cache[hash].embeddings]

\* loadFromCache(hash): null when the file is missing, when JSON.parse throws
\* on it (caught), or when it was written under another model name; any
\* other record is returned as read, its two lists unexamined.
loadFromCache(hash) ==
    IF hash \notin DOMAIN cache
    THEN [hit |-> FALSE, documents |-> <<>>, embeddings |-> <<>>]
    ELSE IF ~cache[hash].parses
         THEN [hit |-> FALSE, documents |-> <<>>, embeddings |-> <<>>]
         ELSE IF cache[hash].modelName # embeddingModel
              THEN [hit |-> FALSE, documents |-> <<>>, embeddings |-> <<>>]
              ELSE [hit |-> TRUE, documents |-> cache[hash].documents,
                    embeddings |-> cache[hash].embeddings]

\* A hit that returns the metadata as the cache record holds it.
HitMetaAsStored(metadata, file) == metadata

\* doc.metadata = {...doc.metadata, filename, status, additions, ...}
HitMeta(metadata, file) ==
    [metadata EXCEPT !.filename = file.filename, !.status = file.status,
                     !.changes = ToString(file.changes)]

EmptyScan ==
    [allDocuments |-> <<>>, allEmbeddings |-> <<>>, cacheHits |-> 0,
     cacheMisses |-> 0, uncachedDocuments |-> <<>>,
     uncachedFileHashes |-> <<>>, hitIdx |-> <<>>, missIdx |-> <<>>,
     hits |-> <<>>]

Texts(documents) == [k \in DOMAIN documents |-> documents[k].pageContent]

\* One iteration of `for (const file of fileChanges)`; hitIdx, missIdx and
\* hits record, for the properties, which files took which path and what
\* each hit pushed.
ScanFile(file, i, acc) ==
    IF file.content = ""
    THEN acc
    ELSE LET contentHash == calculateHash(file.content)
             cached == loadFromCache(contentHash)
             n == Len(cached.documents)
         IN  IF cached.hit
             THEN [acc EXCEPT
                    !.allDocuments = @ \o [k \in 1 .. n |->
                        [cached.documents[k] EXCEPT
                            !.metadata = HitMeta(@, file)]],
                    !.allEmbeddings = @ \o [k \in 1 .. n |->
                        IF k <= Len(cached.embeddings)
                        THEN cached.embeddings[k]
                        ELSE [model |-> Undefined, of |-> Undefined]],
                    !.cacheHits = @ + 1,
                    !.hitIdx = Append(@, i),
                    !.hits = Append(@,
                        [file |-> i, hash |-> contentHash,
                         texts |-> Texts(cached.documents),
                         vectors |-> cached.embeddings])]
             ELSE [acc EXCEPT
                    !.uncachedDocuments = @ \o MissChunks(file),
                    !.uncachedFileHashes = Append(@, contentHash),
                    !.cacheMisses = @ + 1,
                    !.missIdx = Append(@, i)]

RECURSIVE ScanFiles(_, _, _)
ScanFiles(files, i, acc) ==
    IF i > Len(files)
    THEN acc
    ELSE ScanFiles(files, i + 1, ScanFile(files[i], i, acc))

\* batches.push(uncachedDocuments.slice(i, i + BATCH_SIZE)), by 0-based index
NumBatches(docs) == (Len(docs) + BATCH_SIZE - 1) \div BATCH_SIZE
Batch(docs, index) == Slice(docs, index * BATCH_SIZE, (index + 1) * BATCH_SIZE)

\* A pool of two workers per server.
ConcurrencyDoubled == 2 * nServers

\* const concurrency = (this.embeddings as any).servers?.length || 1; the
\* balancer is only constructed for more than one server URL.
Concurrency == IF nServers > 1 THEN nServers ELSE 1
WorkerIds == 0 .. (Concurrency - 1)

NoStore == [present |-> FALSE, vectors |-> <<>>, documents |-> <<>>]

NoCall ==
    [state |-> "none", fileChanges |-> <<>>, allDocuments |-> <<>>,
     allEmbeddings |-> <<>>, cacheHits |-> 0, cacheMisses |-> 0,
     uncachedDocuments |-> <<>>, uncachedFileHashes |-> <<>>,
     nextBatchIndex |-> 0, results |-> <<>>, newEmbeddings |-> <<>>]

IdleWorker == [pc |-> "idle", currentIndex |-> -1]

\* History of one indexFiles call: the files that hit and missed, what each
\* hit returned, the batch claims <<workerId, index>>, the requests sent
\* {<<workerId, index>>}, the batch indices in completion order, the indices
\* whose request failed, the saveToCache invocations, the cache and vector
\* store as the call found them, the server each worker has sent to, and the
\* batch indices claimed after the call had rejected.
HistWith(c, store) ==
    [hitIdx |-> <<>>, missIdx |-> <<>>, hits |-> <<>>, claims |-> <<>>,
     sent |-> {}, completion |-> <<>>, failed |-> {}, saved |-> <<>>,
     cacheBefore |-> c, storeBefore |-> store, to |-> {}, late |-> {}]

NoHist == HistWith(cache, vectorStore)

\* A claim that reads the shared counter and leaves it as it was.
ClaimBatchNoIncrement(nextBatchIndex) ==
    [currentIndex |-> nextBatchIndex, nextBatchIndex |-> nextBatchIndex]

\* const currentIndex = nextBatchIndex++;
ClaimBatch(nextBatchIndex) ==
    [currentIndex |-> nextBatchIndex, nextBatchIndex |-> nextBatchIndex + 1]

\* A worker loop that looks at the outcome of the call before it claims and
\* returns once another worker has failed.
WorkerLoopStopsOnFailure(st, w, numBatches) ==
    IF st.nextBatchIndex < numBatches /\ call.state # "rejected"
    THEN LET c == ClaimBatch(st.nextBatchIndex)
         IN  [nextBatchIndex |-> c.nextBatchIndex,
              workers |-> [st.workers EXCEPT ![w] =
                  [pc |-> "delay", currentIndex |-> c.currentIndex]],
              claims |-> Append(st.claims, <<w, c.currentIndex>>)]
    ELSE [st EXCEPT !.workers[w] = [pc |-> "done", currentIndex |-> -1]]

\* The head of worker w's `while (nextBatchIndex < batches.length)` loop, run
\* to its next await: claim a batch and start the 1000 ms timer, or return.
\* st carries nextBatchIndex, the workers and the claims made so far.
WorkerLoop(st, w, numBatches) ==
    IF st.nextBatchIndex < numBatches
    THEN LET c == ClaimBatch(st.nextBatchIndex)
         IN  [nextBatchIndex |-> c.nextBatchIndex,
              workers |-> [st.workers EXCEPT ![w] =
                  [pc |-> "delay", currentIndex |-> c.currentIndex]],
              claims |-> Append(st.claims, <<w, c.currentIndex>>)]
    ELSE [st EXCEPT !.workers[w] = [pc |-> "done", currentIndex |-> -1]]

\* Array(concurrency).fill(null).map((_, i) => worker(i)): each worker runs
\* synchronously to its first await, in workerId order.
RECURSIVE LaunchWorkers(_, _, _)
LaunchWorkers(st, w, numBatches) ==
    IF w >= Concurrency
    THEN st
    ELSE LaunchWorkers(WorkerLoop(st, w, numBatches), w + 1, numBatches)

\* results.sort((a, b) => a.index - b.index), as a stable insertion sort.
RECURSIVE InsertByIndex(_, _)
InsertByIndex(sorted, r) ==
    IF sorted = <<>>
    THEN <<r>>
    ELSE IF r.index < Head(sorted).index
         THEN <<r>> \o sorted
         ELSE <<Head(sorted)>> \o InsertByIndex(Tail(sorted), r)

RECURSIVE SortByIndexFrom(_, _, _)
SortByIndexFrom(results, k, sorted) ==
    IF k > Len(results)
    THEN sorted
    ELSE SortByIndexFrom(results, k + 1, InsertByIndex(sorted, results[k]))

\* The completion order, kept as it is.
Unsorted(results) == results

SortResults(results) == SortByIndexFrom(results, 1, <<>>)

\* for (const result of results) newEmbeddings.push(...result.embeddings)
RECURSIVE FlattenResults(_, _)
FlattenResults(results, k) ==
    IF k > Len(results)
    THEN <<>>
    ELSE results[k].embeddings \o FlattenResults(results, k + 1)

\* fileChanges.filter((f) => f.content)
RECURSIVE FilterContent(_, _)
FilterContent(files, i) ==
    IF i > Len(files)
    THEN <<>>
    ELSE (IF files[i].content # "" THEN <<files[i]>> ELSE <<>>)
            \o FilterContent(files, i + 1)

\* metadata: { type: chunk.metadata.type || "content" }
ChunkForCache(chunk) ==
    [pageContent |-> chunk.pageContent,
     metadata |-> [filename |-> Undefined, status |-> Undefined,
                   type |-> IF chunk.metadata.type = Undefined
                            THEN "content" ELSE chunk.metadata.type,
                   changes |-> Undefined]]

\* saveToCache(hash, documents, embeddings): one file per digest, replaced
\* whole by JSON.stringify of the record (parses tells whether JSON.parse
\* accepts the file's text); a write that throws is logged and leaves the
\* directory as it was.
saveToCache(c, hash, documents, embeddings, writeOk) ==
    IF writeOk
    THEN [h \in DOMAIN c \cup {hash} |->
            IF h = hash
            THEN [hash |-> hash, modelName |-> embeddingModel,
                  documents |-> documents, embeddings |-> embeddings,
                  parses |-> TRUE]
            ELSE c[h]]
    ELSE c

\* The file the save loop takes for the fileIdx-th miss (0-based):
\* fileChanges.filter((f) => f.content)[cacheHits + fileIdx]
SaveLoopFile(cl, fileIdx) ==
    LET withContent == FilterContent(cl.fileChanges, 1)
        at == cl.cacheHits + fileIdx + 1
    IN  IF at <= Len(withContent) THEN withContent[at] ELSE NoFile

\* A save loop iteration that counts the diff chunk for the chunks but not
\* for the vectors.
SaveLoopStepNoPatchVector(cl, st, fileIdx, failWrites) ==
    LET file == SaveLoopFile(cl, fileIdx)
    IN  IF file.content = ""
        THEN st
        ELSE LET fileChunks == createDocuments(file.content, Undefined)
                 chunkCount == Len(fileChunks)
                               + (IF file.patch # "" THEN 1 ELSE 0)
                 fileDocuments == Slice(cl.uncachedDocuments, st.fileStartIdx,
                                        st.fileStartIdx + chunkCount)
                 fileEmbeddings == Slice(cl.newEmbeddings, st.fileStartIdx,
                                         st.fileStartIdx + Len(fileChunks))
                 chunksForCache == [k \in 1 .. Len(fileDocuments) |->
                                       ChunkForCache(fileDocuments[k])]
                 contentHash == cl.uncachedFileHashes[fileIdx + 1]
                 writeOk == fileIdx \notin failWrites
             IN  [fileStartIdx |-> st.fileStartIdx + chunkCount,
                  cache |-> saveToCache(st.cache, contentHash, chunksForCache,
                                        fileEmbeddings, writeOk),
                  saved |-> Append(st.saved,
                      [fileIdx |-> fileIdx, hash |-> contentHash,
                       documents |-> chunksForCache,
                       embeddings |-> fileEmbeddings, ok |-> writeOk])]

\* One iteration of the save loop `for (fileIdx = 0; fileIdx < cacheMisses;
\* fileIdx++)`; st carries fileStartIdx, the cache directory and the record
\* of the saveToCache invocations.  failWrites are the iterations whose
\* write throws.
SaveLoopStep(cl, st, fileIdx, failWrites) ==
    LET file == SaveLoopFile(cl, fileIdx)
    IN  IF file.content = ""
        THEN st
        ELSE LET fileChunks == createDocuments(file.content, Undefined)
                 chunkCount == Len(fileChunks)
                               + (IF file.patch # "" THEN 1 ELSE 0)
                 fileDocuments == Slice(cl.uncachedDocuments, st.fileStartIdx,
                                        st.fileStartIdx + chunkCount)
                 fileEmbeddings == Slice(cl.newEmbeddings, st.fileStartIdx,
                                         st.fileStartIdx + chunkCount)
                 chunksForCache == [k \in 1 .. Len(fileDocuments) |->
                                       ChunkForCache(fileDocuments[k])]
                 contentHash == cl.uncachedFileHashes[fileIdx + 1]
                 writeOk == fileIdx \notin failWrites
             IN  [fileStartIdx |-> st.fileStartIdx + chunkCount,
                  cache |-> saveToCache(st.cache, contentHash, chunksForCache,
                                        fileEmbeddings, writeOk),
                  saved |-> Append(st.saved,
                      [fileIdx |-> fileIdx, hash |-> contentHash,
                       documents |-> chunksForCache,
                       embeddings |-> fileEmbeddings, ok |-> writeOk])]

RECURSIVE SaveLoop(_, _, _, _)
SaveLoop(cl, st, fileIdx, failWrites) ==
    IF fileIdx >= cl.cacheMisses
    THEN st
    ELSE SaveLoop(cl, SaveLoopStep(cl, st, fileIdx, failWrites),
                  fileIdx + 1, failWrites)

\* The rest of indexFiles once createDocumentsWithEmbeddings has returned:
\* nothing to index leaves the store alone, otherwise a new MemoryVectorStore
\* receives addVectors(embeddings, documents).
StoreAfter(documents, embeddings) ==
    IF Len(documents) = 0
    THEN vectorStore
    ELSE [present |-> TRUE, vectors |-> embeddings, documents |-> documents]

Quiescent ==
    /\ call.state \in {"none", "returned", "rejected"}
    /\ \A w \in DOMAIN workers : workers[w].pc \in {"idle", "done", "thrown"}


\* async indexFiles(fileChanges), to the first await of the worker pool: the
\* hit/miss loop over the files, then either the return without a pipeline
\* (no miss chunk) followed by the rest of indexFiles, or the batches and the
\* launch of the workers.
indexFiles(fileChanges) ==
    /\ call.state = "none"
    /\ LET scan == ScanFiles(fileChanges, 1, EmptyScan)
           numBatches == NumBatches(scan.uncachedDocuments)
           idle == [w \in WorkerIds |-> IdleWorker]
           launched == LaunchWorkers(
               [nextBatchIndex |-> 0, workers |-> idle, claims |-> <<>>],
               0, numBatches)
           h == [NoHist EXCEPT
                    !.hitIdx = scan.hitIdx, !.missIdx = scan.missIdx,
                    !.hits = scan.hits]
           cl == [NoCall EXCEPT
                    !.fileChanges = fileChanges,
                    !.allDocuments = scan.allDocuments,
                    !.allEmbeddings = scan.allEmbeddings,
                    !.cacheHits = scan.cacheHits,
                    !.cacheMisses = scan.cacheMisses,
                    !.uncachedDocuments = scan.uncachedDocuments,
                    !.uncachedFileHashes = scan.uncachedFileHashes]
       IN  IF Len(scan.uncachedDocuments) > 0
           THEN /\ call' = [cl EXCEPT !.state = "running",
                               !.nextBatchIndex = launched.nextBatchIndex]
                /\ workers' = launched.workers
                /\ hist' = [h EXCEPT !.claims = launched.claims]
                /\ UNCHANGED vectorStore
           ELSE /\ call' = [cl EXCEPT !.state = "returned"]
                /\ workers' = idle
                /\ hist' = h
                /\ vectorStore' = StoreAfter(scan.allDocuments,
                                             scan.allEmbeddings)
    /\ UNCHANGED <<embeddingModel, cache, yielded>>
    /\ UNCHANGED <<poolVars, finder, agent, restVars>>

\* Workers that all send to the first server.
WorkerServerFirst(w) == 0

\* The server of worker w's embedding instance: servers[workerId] of the
\* balancer when there are several, else the one OllamaEmbeddings.
WorkerServer(w) == IF Concurrency > 1 THEN w ELSE 0

\* Worker w's timer fires: it sends its batch's texts to its own server,
\* workerEmbeddings.embedDocuments(texts), and awaits the reply; hist.to
\* records the server each worker has sent to.
TimerFires(w) ==
    /\ workers[w].pc = "delay"
    /\ workers' = [workers EXCEPT ![w].pc = "embed"]
    /\ hist' = [hist EXCEPT !.sent = @ \cup {<<w, workers[w].currentIndex>>},
                            !.to = @ \cup {<<w, WorkerServer(w)>>}]
    /\ UNCHANGED <<embeddingModel, cache, vectorStore, call, yielded>>
    /\ UNCHANGED <<poolVars, finder, agent, restVars>>

\* The server answers worker w with one vector per text:
\* results.push({index, embeddings}), then the loop head again.
EmbedReturns(w) ==
    /\ workers[w].pc = "embed"
    /\ LET currentIndex_w == workers[w].currentIndex
           batch == Batch(call.uncachedDocuments, currentIndex_w)
           batchEmbeddings == [k \in 1 .. Len(batch) |->
                                  Embed(embeddingModel, batch[k].pageContent)]
           st == WorkerLoop(
               [nextBatchIndex |-> call.nextBatchIndex, workers |-> workers,
                claims |-> hist.claims],
               w, NumBatches(call.uncachedDocuments))
       IN  /\ call' = [call EXCEPT
                 !.results = Append(@, [index |-> currentIndex_w,
                                        embeddings |-> batchEmbeddings]),
                 !.nextBatchIndex = st.nextBatchIndex]
           /\ workers' = st.workers
           /\ hist' = [hist EXCEPT
                 !.claims = st.claims,
                 !.completion = Append(@, currentIndex_w),
                 !.late = IF call.state = "rejected"
                             /\ Len(st.claims) > Len(hist.claims)
                          THEN @ \cup {call.nextBatchIndex}
                          ELSE @]
    /\ UNCHANGED <<embeddingModel, cache, vectorStore, yielded>>
    /\ UNCHANGED <<poolVars, finder, agent, restVars>>

\* A worker that logs the failure of its request and goes on with the loop
\* instead of rethrowing.
EmbedThrowsSwallowed(w) ==
    /\ workers[w].pc = "embed"
    /\ LET st == WorkerLoop(
               [nextBatchIndex |-> call.nextBatchIndex, workers |-> workers,
                claims |-> hist.claims],
               w, NumBatches(call.uncachedDocuments))
       IN  /\ call' = [call EXCEPT !.nextBatchIndex = st.nextBatchIndex]
           /\ workers' = st.workers
           /\ hist' = [hist EXCEPT
                 !.claims = st.claims,
                 !.failed = @ \cup {workers[w].currentIndex}]
    /\ UNCHANGED <<embeddingModel, cache, vectorStore, yielded>>
    /\ UNCHANGED <<poolVars, finder, agent, restVars>>

\* The request of worker w fails: the worker logs and rethrows, so its
\* promise rejects, Promise.all rejects with it, and the exception leaves
\* createDocumentsWithEmbeddings and indexFiles.  The other workers are not
\* told.
EmbedThrows(w) ==
    /\ workers[w].pc = "embed"
    /\ workers' = [workers EXCEPT ![w].pc = "thrown"]
    /\ call' = [call EXCEPT !.state = "rejected"]
    /\ hist' = [hist EXCEPT !.failed = @ \cup {workers[w].currentIndex}]
    /\ UNCHANGED <<embeddingModel, cache, vectorStore, yielded>>
    /\ UNCHANGED <<poolVars, finder, agent, restVars>>

\* History: what the returning call yields for its k-th miss file, the
\* chunks made from that file and the vectors returned at their positions.
MissFile(cl, k) == cl.fileChanges[hist.missIdx[k]]

RECURSIVE MissOffset(_, _)
MissOffset(cl, k) ==
    IF k = 1
    THEN 0
    ELSE MissOffset(cl, k - 1) + Len(MissChunks(MissFile(cl, k - 1)))

RunYield(cl, k) ==
    LET from == MissOffset(cl, k)
        to == from + Len(MissChunks(MissFile(cl, k)))
    IN  [texts |-> Texts(Slice(cl.uncachedDocuments, from, to)),
         vectors |-> Slice(cl.newEmbeddings, from, to)]

RECURSIVE RecordYields(_, _, _, _)
RecordYields(cl, saved, k, y) ==
    IF k > Len(saved)
    THEN y
    ELSE RecordYields(cl, saved, k + 1,
            IF saved[k].ok
            THEN [h \in DOMAIN y \cup {saved[k].hash} |->
                    IF h = saved[k].hash
                    THEN RunYield(cl, saved[k].fileIdx + 1)
                    ELSE y[h]]
            ELSE y)

\* A pipeline in which a write that throws leaves the save loop and the
\* call: the promise of indexFiles rejects and no store is built.
PipelineRejectsOnWriteFailure(failWrites) ==
    /\ call.state = "running"
    /\ \A w \in DOMAIN workers : workers[w].pc = "done"
    /\ LET sorted == SortResults(call.results)
           newEmbeddings == FlattenResults(sorted, 1)
           cl == [call EXCEPT !.results = sorted,
                              !.newEmbeddings = newEmbeddings]
           st == SaveLoop(cl, [fileStartIdx |-> 0, cache |-> cache,
                               saved |-> <<>>], 0, failWrites)
           documents == call.allDocuments \o call.uncachedDocuments
           embeddings == call.allEmbeddings \o newEmbeddings
           failed == \E k \in DOMAIN st.saved : ~st.saved[k].ok
       IN  /\ cache' = st.cache
           /\ hist' = [hist EXCEPT !.saved = st.saved]
           /\ yielded' = RecordYields(cl, st.saved, 1, yielded)
           /\ call' = IF failed
                      THEN [cl EXCEPT !.state = "rejected"]
                      ELSE [cl EXCEPT !.state = "returned",
                                      !.allDocuments = documents,
                                      !.allEmbeddings = embeddings]
           /\ vectorStore' = IF failed
                             THEN vectorStore
                             ELSE StoreAfter(documents, embeddings)
    /\ UNCHANGED <<embeddingModel, workers>>
    /\ UNCHANGED <<poolVars, finder, agent, restVars>>

\* Promise.all(workers) has resolved: sort and flatten the results, save one
\* cache entry per miss, append the miss chunks and vectors after the hit
\* ones, return; indexFiles then fills a new vector store.
PipelineReturns(failWrites) ==
    /\ call.state = "running"
    /\ \A w \in DOMAIN workers : workers[w].pc = "done"
    /\ LET sorted == SortResults(call.results)
           newEmbeddings == FlattenResults(sorted, 1)
           cl == [call EXCEPT !.results = sorted,
                              !.newEmbeddings = newEmbeddings]
           st == SaveLoop(cl, [fileStartIdx |-> 0, cache |-> cache,
                               saved |-> <<>>], 0, failWrites)
           documents == call.allDocuments \o call.uncachedDocuments
           embeddings == call.allEmbeddings \o newEmbeddings
       IN  /\ cache' = st.cache
           /\ hist' = [hist EXCEPT !.saved = st.saved]
           /\ yielded' = RecordYields(cl, st.saved, 1, yielded)
           /\ call' = [cl EXCEPT !.state = "returned",
                                 !.allDocuments = documents,
                                 !.allEmbeddings = embeddings]
           /\ vectorStore' = StoreAfter(documents, embeddings)
    /\ UNCHANGED <<embeddingModel, workers>>
    /\ UNCHANGED <<poolVars, finder, agent, restVars>>

\* The caller of indexFiles has its outcome (the promise resolved or
\* rejected) and every worker has stopped: the locals of the call are gone.
CallSettles ==
    /\ Quiescent
    /\ call.state # "none"
    /\ call' = NoCall
    /\ workers' = [w \in WorkerIds |-> IdleWorker]
    /\ hist' = NoHist
    /\ UNCHANGED <<embeddingModel, cache, vectorStore, yielded>>
    /\ UNCHANGED <<poolVars, finder, agent, restVars>>

\* new RAGService(config) in a later run of the action, configured with
\* another embedding model: the cache directory stays, the vector store
\* starts null.
NewService(model) ==
    /\ call.state = "none"
    /\ model # embeddingModel
    /\ embeddingModel' = model
    /\ vectorStore' = NoStore
    /\ hist' = [hist EXCEPT !.storeBefore = NoStore]
    /\ UNCHANGED <<cache, call, workers, yielded>>
    /\ UNCHANGED <<poolVars, finder, agent, restVars>>

\* Between two runs the cache directory is restored by the workflow's cache
\* step, and a file of it may come back other than it was written: with a
\* text JSON.parse rejects ("garbled"), or as a record whose embeddings list
\* lost its last vector ("cut").
DamageKinds == {"garbled", "cut"}

CacheFileDamaged(hash, kind) ==
    /\ call.state = "none"
    /\ hash \in DOMAIN cache
    /\ cache[hash].parses
    /\ Len(cache[hash].embeddings) = Len(cache[hash].documents)
    /\ Len(cache[hash].embeddings) > 0
    /\ cache' = [cache EXCEPT ![hash] =
           IF kind = "garbled"
           THEN [@ EXCEPT !.parses = FALSE]
           ELSE [@ EXCEPT !.embeddings = SubSeq(@, 1, Len(@) - 1)]]
    /\ hist' = [hist EXCEPT !.cacheBefore = cache']
    /\ UNCHANGED <<embeddingModel, vectorStore, call, workers, yielded>>
    /\ UNCHANGED <<poolVars, finder, agent, restVars>>

(* ====================================================================== *)
(*                RAGService.findAffectedFileCandidates                   *)
(* ====================================================================== *)
\* The code base getAllCodeFiles hands to indexFiles before the search:
\* MaxIndexed files of one chunk each, but the second, which has two.
IndexedName(i) == "src/f" \o ToString(i) \o ".ts"

IndexedFile(i) ==
    [filename |-> IndexedName(i), status |-> "added",
     content |-> IF i = 2 THEN "c2" ELSE "c1", patch |-> "",
     changes |-> 0]

RECURSIVE IndexedChunks(_)
IndexedChunks(n) ==
    IF n = 0 THEN <<>> ELSE IndexedChunks(n - 1) \o MissChunks(IndexedFile(n))

\* this.vectorStore after indexFiles(allCodeFiles) under model "m1".
IndexedStore ==
    LET documents == IndexedChunks(MaxIndexed)
    IN  [present |-> TRUE, documents |-> documents,
         vectors |-> [k \in DOMAIN documents |->
                         Embed("m1", documents[k].pageContent)]]

\* The FileChange values of a release handed to findAffectedFileCandidates.
\* The first three are files of the indexed code base.
ChangedA == [filename |-> IndexedName(1), status |-> "modified",
             content |-> "c1", patch |-> "px1", changes |-> 5]
ChangedB == [filename |-> IndexedName(2), status |-> "modified",
             content |-> "c2", patch |-> "", changes |-> 9]
ChangedC == [filename |-> IndexedName(3), status |-> "modified",
             content |-> "c1", patch |-> "px3", changes |-> 7]
ChangedGone == [filename |-> "gone.ts", status |-> "removed",
                content |-> "", patch |-> "", changes |-> 12]
ChangedPool == {ChangedA, ChangedB, ChangedC, ChangedGone}

\* The capture groups the patterns of extractIdentifiers match in a text, in
\* the order the forEach / exec loop meets them.
\* The texts "t<n>d<dup>s<short>": the battery captures the n distinct
\* names id1 .. idn in this order, the two-character name "ab" after the
\* short-th of them and the name id1 once more after the dup-th (0: not);
\* the extra captures come nowhere, early, or after the last name.
GenTexts ==
    {t \in [n : 0 .. MaxMatches, dup : 0 .. MaxMatches,
            short : 0 .. MaxMatches] :
        t.dup \in {0, 2, t.n} /\ t.short \in {0, 1, t.n}}

TextName(t) ==
    "t" \o ToString(t.n) \o "d" \o ToString(t.dup) \o "s" \o ToString(t.short)

GenTextNames == {TextName(t) : t \in GenTexts}

RECURSIVE GenMatches(_, _)
GenMatches(t, i) ==
    IF i > t.n
    THEN <<>>
    ELSE <<"id" \o ToString(i)>>
            \o (IF i = t.short THEN <<"ab">> ELSE <<>>)
            \o (IF i = t.dup THEN <<"id1">> ELSE <<>>)
            \o GenMatches(t, i + 1)

GenCaptures ==
    [name \in GenTextNames |->
        GenMatches(CHOOSE t \in GenTexts : TextName(t) = name, 1)]

\* The captures match[1] of the pattern battery on a text, in the order of
\* the forEach over the patterns and of pattern.exec within a pattern.
PatternMatches(text) ==
    CASE text = "px1" -> <<"findMany", "save", "findMany", "id", "BaseRepo",
                           "UserService">>
      [] text = "c2"  -> <<"run", "go", "Scheduler", "run", "tick">>
      [] text = "px3" -> <<"ab", "x">>
      [] text \in GenTextNames -> GenCaptures[text]
      [] OTHER -> <<>>

\* if (identifier && identifier.length > 2 && !identifiers.includes(...))
RECURSIVE KeepIdentifiers(_, _, _)
KeepIdentifiers(matches, k, identifiers) ==
    IF k > Len(matches)
    THEN identifiers
    ELSE LET identifier == matches[k]
         IN  KeepIdentifiers(matches, k + 1,
                 IF /\ identifier # ""
                    /\ Len(identifier) > 2
                    /\ identifier \notin Range(identifiers)
                 THEN Append(identifiers, identifier)
                 ELSE identifiers)

\* An extraction that returns every identifier kept.
extractIdentifiersUncapped(fileChange) ==
    IF fileChange.patch = "" /\ fileChange.content = ""
    THEN <<>>
    ELSE LET text == IF fileChange.patch # "" THEN fileChange.patch
                     ELSE fileChange.content
         IN  KeepIdentifiers(PatternMatches(text), 1, <<>>)

\* private extractIdentifiers(fileChange)
extractIdentifiers(fileChange) ==
    IF fileChange.patch = "" /\ fileChange.content = ""
    THEN <<>>
    ELSE LET text == IF fileChange.patch # "" THEN fileChange.patch
                     ELSE fileChange.content
         IN  Slice(KeepIdentifiers(PatternMatches(text), 1, <<>>), 0, 20)

\* .filter((f) => f.content || f.patch)
RECURSIVE FilterAnalyzable(_)
FilterAnalyzable(fileChanges) ==
    IF fileChanges = <<>>
    THEN <<>>
    ELSE IF Head(fileChanges).content # "" \/ Head(fileChanges).patch # ""
         THEN <<Head(fileChanges)>> \o FilterAnalyzable(Tail(fileChanges))
         ELSE FilterAnalyzable(Tail(fileChanges))

\* .sort((a, b) => b.changes - a.changes): stable, most changes first.
RECURSIVE InsertByChanges(_, _)
InsertByChanges(sorted, f) ==
    IF sorted = <<>>
    THEN <<f>>
    ELSE IF Head(sorted).changes >= f.changes
         THEN <<Head(sorted)>> \o InsertByChanges(Tail(sorted), f)
         ELSE <<f>> \o sorted

RECURSIVE SortByChanges(_, _)
SortByChanges(files, sorted) ==
    IF files = <<>>
    THEN sorted
    ELSE SortByChanges(Tail(files), InsertByChanges(sorted, Head(files)))

\* A selection of the ten files with the most changes.
TopFilesTen(fileChanges) ==
    Slice(SortByChanges(FilterAnalyzable(fileChanges), <<>>), 0, 10)

\* const topFiles = fileChanges.filter(...).sort(...).slice(0, 5)
TopFiles(fileChanges) ==
    Slice(SortByChanges(FilterAnalyzable(fileChanges), <<>>), 0, 5)

\* identifiers.slice(0, 3) of the file at position fileIdx of topFiles.
QueryIdentifiers(topFiles, fileIdx) ==
    Slice(extractIdentifiers(topFiles[fileIdx]), 0, 3)

\* The first file at or after fileIdx that has an identifier (the files
\* before it take `continue`), or 0 when the for loop over topFiles ends.
RECURSIVE NextFileWithIdentifiers(_, _)
NextFileWithIdentifiers(topFiles, fileIdx) ==
    IF fileIdx > Len(topFiles)
    THEN 0
    ELSE IF Len(extractIdentifiers(topFiles[fileIdx])) = 0
         THEN NextFileWithIdentifiers(topFiles, fileIdx + 1)
         ELSE fileIdx

\* vectorStore.similaritySearch(query, k): the k documents of the store
\* nearest to the query (all of them when the store holds fewer), here any
\* run of consecutive documents of the store, nearest first.
similaritySearch(k) ==
    LET documents == vectorStore.documents
        n == Len(documents)
    IN  {[i \in 1 .. Min(k, n) |-> documents[((j + i - 2) % n) + 1]] :
            j \in 1 .. n}

\* A search that never stops at the cap.
CapNever(candidates) == FALSE

\* if (candidates.length >= 7) break;
CapReached(candidates) == Len(candidates) >= 7

\* A result filter that forgets the files already recorded.
IsNewCandidateNoSeen(foundFile, file, seenFiles) ==
    /\ foundFile # Undefined
    /\ foundFile # file.filename

\* A result filter that admits the file the identifier came from.
IsNewCandidateAnyFile(foundFile, file, seenFiles) ==
    /\ foundFile # Undefined
    /\ foundFile \notin seenFiles

\* if (foundFile && foundFile !== file.filename && !seenFiles.has(foundFile))
IsNewCandidate(foundFile, file, seenFiles) ==
    /\ foundFile # Undefined
    /\ foundFile # file.filename
    /\ foundFile \notin seenFiles

NoFinder ==
    [state |-> "none", fileChanges |-> <<>>, topFiles |-> <<>>,
     fileIdx |-> 0, idIdx |-> 0, candidates |-> <<>>, seenFiles |-> {},
     queries |-> 0, afterCap |-> 0, firstFound |-> {}, refound |-> FALSE,
     hadStore |-> FALSE]

\* `for (const doc of results)` from the k-th result on.  For the properties,
\* afterCap counts the results inspected with seven candidates recorded,
\* firstFound holds, per path found for another file than its own, the
\* identifier whose query found it first, and refound says that such a path
\* was found again by another identifier.
RECURSIVE InspectResults(_, _, _, _, _)
InspectResults(f, results, k, file, identifier) ==
    IF k > Len(results)
    THEN f
    ELSE LET foundFile == results[k].metadata.filename
             eligible == foundFile # Undefined /\ foundFile # file.filename
             known == \E r \in f.firstFound : r.filename = foundFile
             seen == [f EXCEPT
                         !.afterCap =
                             IF Len(f.candidates) >= 7 THEN @ + 1 ELSE @,
                         !.firstFound =
                             IF eligible /\ ~known
                             THEN @ \cup {[filename |-> foundFile,
                                           identifier |-> identifier]}
                             ELSE @,
                         !.refound =
                             @ \/ (/\ eligible
                                   /\ \E r \in f.firstFound :
                                          /\ r.filename = foundFile
                                          /\ r.identifier # identifier)]
         IN  IF IsNewCandidate(foundFile, file, f.seenFiles)
             THEN LET pushed ==
                          [seen EXCEPT
                              !.seenFiles = @ \cup {foundFile},
                              !.candidates = Append(@,
                                  [filename |-> foundFile,
                                   identifier |-> identifier,
                                   reason |-> [file |-> file.filename,
                                               identifier |-> identifier]])]
                  IN  IF CapReached(pushed.candidates)
                      THEN pushed
                      ELSE InspectResults(pushed, results, k + 1, file,
                                          identifier)
             ELSE InspectResults(seen, results, k + 1, file, identifier)

\* After the query at (fileIdx, idIdx) is dealt with: leave every loop when
\* the cap is reached, else go on to the next identifier, else to the next
\* file that has identifiers, else return.
Advance(f) ==
    IF CapReached(f.candidates)
    THEN [f EXCEPT !.state = "returned"]
    ELSE IF f.idIdx < Len(QueryIdentifiers(f.topFiles, f.fileIdx))
         THEN [f EXCEPT !.idIdx = @ + 1, !.queries = @ + 1,
                        !.afterCap = IF Len(f.candidates) >= 7
                                     THEN @ + 1 ELSE @]
         ELSE LET nextFile ==
                      NextFileWithIdentifiers(f.topFiles, f.fileIdx + 1)
              IN  IF nextFile = 0
                  THEN [f EXCEPT !.state = "returned"]
                  ELSE [f EXCEPT !.fileIdx = nextFile, !.idIdx = 1,
                                 !.queries = @ + 1,
                                 !.afterCap = IF Len(f.candidates) >= 7
                                              THEN @ + 1 ELSE @]

\* async findAffectedFileCandidates(fileChanges), to its first await.
findAffectedFileCandidates(fileChanges) ==
    /\ finder.state = "none"
    /\ LET topFiles == TopFiles(fileChanges)
           first == NextFileWithIdentifiers(topFiles, 1)
           f == [NoFinder EXCEPT !.fileChanges = fileChanges,
                                 !.topFiles = topFiles,
                                 !.hadStore = vectorStore.present]
       IN  finder' =
               IF ~vectorStore.present \/ first = 0
               THEN [f EXCEPT !.state = "returned"]
               ELSE [f EXCEPT !.state = "searching", !.fileIdx = first,
                              !.idIdx = 1, !.queries = 1]
    /\ UNCHANGED <<poolVars, ragVars, agent, restVars>>

\* await this.vectorStore.similaritySearch(identifier, 2) resolves.
SearchReturns(results) ==
    /\ finder.state = "searching"
    /\ LET file == finder.topFiles[finder.fileIdx]
           identifier ==
               QueryIdentifiers(finder.topFiles, finder.fileIdx)[finder.idIdx]
       IN  finder' = Advance(InspectResults(finder, results, 1, file,
                                            identifier))
    /\ UNCHANGED <<poolVars, ragVars, agent, restVars>>

\* similaritySearch rejects: the catch warns and the identifier loop goes on.
SearchThrows ==
    /\ finder.state = "searching"
    /\ finder' = Advance(finder)
    /\ UNCHANGED <<poolVars, ragVars, agent, restVars>>

\* The caller has the candidates; the next call starts afresh.
FinderSettles ==
    /\ finder.state = "returned"
    /\ finder' = NoFinder
    /\ UNCHANGED <<poolVars, ragVars, agent, restVars>>

(* ====================================================================== *)
(*          ChangelogGenerator.analyzeImpactWithLangChainTools            *)
(* ====================================================================== *)
\* The names CodeAnalysisTools.getTools() binds (changelog.ts 170-185).
AgentTools ==
    {"read_file", "list_files", "search_code", "get_file_info",
     "search_similar_code"}

\* The names the backend asks for: a bound tool and one that is not bound.
RequestedNames == {"read_file", "delete_file"}

\* Message contents.  "" is the empty string and " " a string of white
\* space only; the other values stand for texts with visible characters.
ResponseTexts == {"", " ", "final text"}
ToolOutputs == {"", "file body"}
AnalysisPrompt == "analysisPrompt"
\* "분석을 계속해주세요. ..." (lines 607-608)
NudgeText == "please continue the analysis"
\* "영향 분석을 완료했습니다." (line 622)
LastResponseFallback == "impact analysis finished"
\* "영향 분석을 완료했지만 최종 요약을 생성하지 못했습니다." (line 627)
NoSummaryFallback == "impact analysis finished without a summary"
\* `영향 분석 중 오류가 발생했습니다: ${error}` (line 639)
ErrorReturnText == "error during impact analysis"
\* `오류: ${errorMsg}` (line 567)
ToolErrorText == "error: tool failed"

\* content.trim()
Trim(content) == IF content = " " THEN "" ELSE content

NoId == [it |-> 0, k |-> 0]

UserMessage(content) ==
    [role |-> "user", content |-> content, tool_calls |-> <<>>,
     tool_call_id |-> NoId, isString |-> FALSE]

ToolMessage(content, id) ==
    [role |-> "tool", content |-> content, tool_calls |-> <<>>,
     tool_call_id |-> id, isString |-> FALSE]

\* What llmWithTools.invoke resolves to at iteration it: an AIMessage with
\* a content and at most MaxToolCalls tool calls, or a plain string.
Responses(it) ==
    {[role |-> "assistant", content |-> content,
      tool_calls |-> [k \in DOMAIN names |->
                         [name |-> names[k], id |-> [it |-> it, k |-> k]]],
      tool_call_id |-> NoId, isString |-> FALSE] :
        content \in ResponseTexts,
        names \in UNION {[1 .. n -> RequestedNames] : n \in 0 .. MaxToolCalls}}
    \cup
    {[role |-> "assistant", content |-> content, tool_calls |-> <<>>,
      tool_call_id |-> NoId, isString |-> TRUE] : content \in ResponseTexts}

NoResponse == UserMessage("")

\* The locals of the call (iteration, finalAnalysis, the response and the
\* tool loop's position and toolResults), what the caller receives (outcome,
\* result), and the conversation, of which the code reads only whether its
\* length exceeds 1 and its last element: grown, last, and appended, the
\* messages the iteration pushed once it is completed.  The remaining fields are history for
\* the properties: invocations counts llmWithTools.invoke calls, turn names
\* the branch the latest completed iteration took, lastText is the content of
\* the latest response whose content was not empty, invoked and threw are
\* the positions of the tool calls of the current iteration that were
\* invoked and that threw, allRun says that every tool call requested in
\* the completed iterations was invoked, backendFailed that an invoke threw.
NoAgent ==
    [state |-> "none", iteration |-> 0, finalAnalysis |-> "",
     response |-> NoResponse, toolIdx |-> 0, toolResults |-> <<>>,
     grown |-> FALSE, last |-> NoResponse, appended |-> <<>>,
     outcome |-> "none", result |-> "",
     invocations |-> 0, turn |-> "none", lastText |-> "",
     invoked |-> {}, threw |-> {}, allRun |-> TRUE, backendFailed |-> FALSE]

\* conversation.push(...messages) onto a conversation that holds the prompt.
Push(a, messages) ==
    IF messages = <<>>
    THEN a
    ELSE [a EXCEPT !.grown = TRUE, !.last = messages[Len(messages)]]

\* The code after the loop with the last-response fallbacks left out.
PostLoopNoFallback(a) ==
    [a EXCEPT !.state = "returned", !.outcome = "text",
              !.result = IF a.finalAnalysis = "" /\ a.grown
                         THEN a.last.content
                         ELSE a.finalAnalysis]

\* Lines 614-636: with no final analysis the last element of the
\* conversation is used, then the fixed text; the text is returned.
PostLoop(a) ==
    LET fromLast ==
            IF a.finalAnalysis = "" /\ a.grown
            THEN IF a.last.isString
                 THEN a.last.content
                 ELSE IF a.last.content # "" THEN a.last.content
                      ELSE LastResponseFallback
            ELSE a.finalAnalysis
        finalAnalysis == IF fromLast = "" THEN NoSummaryFallback
                         ELSE fromLast
    IN  [a EXCEPT !.state = "returned", !.outcome = "text",
                  !.finalAnalysis = finalAnalysis, !.result = finalAnalysis]

\* iteration++ and the loop test; when the budget is used up the code
\* after the loop runs.
EndIteration(a, turn) ==
    LET b == [a EXCEPT !.iteration = @ + 1, !.turn = turn]
    IN  IF b.iteration < MAX_ITERATIONS
        THEN [b EXCEPT !.state = "awaiting"]
        ELSE PostLoop(b)

\* `for (const toolCall of response.tool_calls)` from position toolIdx up to
\* the next await: a call whose tool is not found is warned about and
\* passed over; after the last call the response and the tool results are
\* pushed and the iteration ends.
RECURSIVE RunToolCalls(_)
RunToolCalls(a) ==
    IF a.toolIdx > Len(a.response.tool_calls)
    THEN LET messages == <<a.response>> \o a.toolResults
             ran == a.invoked = DOMAIN a.response.tool_calls
         IN  EndIteration(
                 [Push(a, messages) EXCEPT !.appended = messages,
                                           !.allRun = @ /\ ran],
                 "tools")
    ELSE IF a.response.tool_calls[a.toolIdx].name \in AgentTools
         THEN [a EXCEPT !.state = "tool", !.invoked = @ \cup {a.toolIdx}]
         ELSE RunToolCalls([a EXCEPT !.toolIdx = @ + 1])

\* The empty-response branch without the continuation prompt.
EmptyTurnNoNudge(a) ==
    LET messages == <<a.response>>
    IN  EndIteration([Push(a, messages) EXCEPT !.appended = messages],
                     "empty")

\* Lines 598-609: the empty response and the continuation prompt are pushed.
EmptyTurn(a) ==
    LET messages == <<a.response, UserMessage(NudgeText)>>
    IN  EndIteration([Push(a, messages) EXCEPT !.appended = messages],
                     "empty")

\* generateWithTools calls analyzeImpactWithLangChainTools (candidates is not
\* empty): the prompt is pushed and the loop is entered.
analyzeImpactWithLangChainTools ==
    /\ agent.state = "none"
    /\ agent' = [NoAgent EXCEPT !.state = "awaiting",
                                !.last = UserMessage(AnalysisPrompt)]
    /\ UNCHANGED <<poolVars, ragVars, finder, restVars>>

\* await llmWithTools.invoke(conversation) resolves with response.
BackendResponds(response) ==
    /\ agent.state = "awaiting"
    /\ LET responseContent == response.content
           a == [agent EXCEPT
                    !.response = response,
                    !.invocations = @ + 1,
                    !.lastText = IF response.content # "" THEN response.content
                                 ELSE @,
                    !.toolIdx = 1, !.toolResults = <<>>, !.appended = <<>>,
                    !.invoked = {}, !.threw = {}]
       IN  agent' =
               IF Len(response.tool_calls) > 0
               THEN RunToolCalls(a)
               ELSE IF responseContent # "" /\ Len(Trim(responseContent)) > 0
                    THEN PostLoop([a EXCEPT !.finalAnalysis = responseContent,
                                            !.turn = "final"])
                    ELSE EmptyTurn(a)
    /\ UNCHANGED <<poolVars, ragVars, finder, restVars>>

\* await llmWithTools.invoke(conversation) rejects: the catch of lines
\* 637-640 returns the error text to the caller.
BackendThrows ==
    /\ agent.state = "awaiting"
    /\ agent' = [agent EXCEPT !.state = "returned", !.outcome = "text",
                              !.result = ErrorReturnText,
                              !.invocations = @ + 1,
                              !.invoked = {}, !.threw = {},
                              !.backendFailed = TRUE, !.turn = "caught"]
    /\ UNCHANGED <<poolVars, ragVars, finder, restVars>>

\* await tool.invoke(toolCall.args) resolves with result.
ToolReturns(result) ==
    /\ agent.state = "tool"
    /\ LET toolCall == agent.response.tool_calls[agent.toolIdx]
       IN  agent' = RunToolCalls(
               [agent EXCEPT
                   !.toolResults = Append(@, ToolMessage(result, toolCall.id)),
                   !.toolIdx = @ + 1])
    /\ UNCHANGED <<poolVars, ragVars, finder, restVars>>

\* A tool failure that escapes to the catch of the whole method.
ToolThrowsAborts ==
    /\ agent.state = "tool"
    /\ agent' = [agent EXCEPT !.state = "returned", !.outcome = "text",
                              !.result = ErrorReturnText,
                              !.threw = @ \cup {agent.toolIdx},
                              !.turn = "caught"]
    /\ UNCHANGED <<poolVars, ragVars, finder, restVars>>

\* await tool.invoke(toolCall.args) rejects: lines 561-570.
ToolThrows ==
    /\ agent.state = "tool"
    /\ LET toolCall == agent.response.tool_calls[agent.toolIdx]
       IN  agent' = RunToolCalls(
               [agent EXCEPT
                   !.toolResults =
                       Append(@, ToolMessage(ToolErrorText, toolCall.id)),
                   !.threw = @ \cup {agent.toolIdx},
                   !.toolIdx = @ + 1])
    /\ UNCHANGED <<poolVars, ragVars, finder, restVars>>

(* ====================================================================== *)
(*             RAGService.searchRelevantCode and clear                    *)
(* ====================================================================== *)
\* topK of the RAGConfig the action builds.
topK == 5

Queries == {"findMany", "retry policy"}

\* No searchRelevantCode call: results is what the caller receives,
\* backendCalls the similaritySearch requests made (each embeds the query),
\* absent whether the call found this.vectorStore null.
NoSearch ==
    [state |-> "none", query |-> "", results |-> <<>>, backendCalls |-> 0,
     absent |-> FALSE]

\* results.map((doc) => `파일: ${doc.metadata.filename || "unknown"}\n...`)
SearchContext(results) ==
    [k \in DOMAIN results |->
        [filename |-> IF results[k].metadata.filename \in {Undefined, ""}
                      THEN "unknown"
                      ELSE results[k].metadata.filename,
         content |-> results[k].pageContent]]

\* A searchRelevantCode that goes to the similarity search whatever the
\* vector store is.
searchRelevantCodeUnguarded(query) ==
    /\ search.state = "none"
    /\ search' = [NoSearch EXCEPT !.state = "searching", !.query = query,
                                  !.backendCalls = 1,
                                  !.absent = ~vectorStore.present]
    /\ UNCHANGED <<poolVars, ragVars, finder, agent, gen, ext, tools, moreVars>>

\* async searchRelevantCode(query), to its await: [] at once when the vector
\* store is null, otherwise the similaritySearch request is under way.
searchRelevantCode(query) ==
    /\ search.state = "none"
    /\ search' =
           IF ~vectorStore.present
           THEN [NoSearch EXCEPT !.state = "returned", !.query = query,
                                 !.absent = TRUE]
           ELSE [NoSearch EXCEPT !.state = "searching", !.query = query,
                                 !.backendCalls = 1]
    /\ UNCHANGED <<poolVars, ragVars, finder, agent, gen, ext, tools, moreVars>>

\* await this.vectorStore.similaritySearch(query, topK) resolves.
SearchCodeReturns(results) ==
    /\ search.state = "searching"
    /\ search' = [search EXCEPT !.state = "returned",
                                !.results = SearchContext(results)]
    /\ UNCHANGED <<poolVars, ragVars, finder, agent, gen, ext, tools, moreVars>>

\* similaritySearch rejects: the catch logs and returns [].
SearchCodeThrows ==
    /\ search.state = "searching"
    /\ search' = [search EXCEPT !.state = "returned", !.results = <<>>]
    /\ UNCHANGED <<poolVars, ragVars, finder, agent, gen, ext, tools, moreVars>>

\* The caller has the contexts; the next call starts afresh.
SearchSettles ==
    /\ search.state = "returned"
    /\ search' = NoSearch
    /\ UNCHANGED <<poolVars, ragVars, finder, agent, gen, ext, tools, moreVars>>

\* clear(): this.vectorStore = null.  run() calls it when the calls it
\* awaited are over.
clear ==
    /\ finder.state # "searching"
    /\ search.state # "searching"
    /\ vectorStore.present
    /\ vectorStore' = NoStore
    /\ UNCHANGED <<poolVars, embeddingModel, cache, call, workers, hist,
                   yielded, finder, agent, restVars>>

\* An indexFiles call on a service without store whose pipeline rejects:
\* the promise is rejected and this.vectorStore stays null.
IndexFails ==
    /\ call.state = "none"
    /\ ~vectorStore.present
    /\ call' = [NoCall EXCEPT !.state = "rejected"]
    /\ UNCHANGED <<poolVars, embeddingModel, cache, vectorStore, workers,
                   hist, yielded, finder, agent, restVars>>

(* ====================================================================== *)
(*                          CodeAnalysisTools                             *)
(* ====================================================================== *)
\* The paths the tools are asked for: three files with text, then a file
\* without any, a directory, and a path the repository does not have.
ToolPaths == {"src/index.ts", "src/utils/rag.ts", "README.md"}
AskedPaths == ToolPaths \cup {"src/empty.ts", "docs", "src/gone.ts"}

\* The blobs of the repository tree at the ref, in the order of the tree.
TreeBlobs == <<"README.md", "src/empty.ts", "src/index.ts", "src/utils/rag.ts">>

\* githubService.getFileContent(path, ref): the text of a file, which may
\* be empty, and null for a directory or when getContent fails.
getFileContent(path) ==
    CASE path \in ToolPaths -> "text of " \o path
      [] path = "src/empty.ts" -> ""
      [] OTHER -> Null

\* A content the tools take for present: if (!fetchedContent) is false.
Truthy(fetchedContent) == fetchedContent # Null /\ fetchedContent # ""

\* No CodeAnalysisTools object yet.  Of an object: ragService tells whether
\* a RAGService was passed to the constructor, fileCache holds the paths
\* whose content is cached, treeCache whether the tree is; first and got are
\* the names of the tools of the first and of the latest getTools() call,
\* again whether getTools() was called more than once; fetches counts, per
\* path, the getFileContent calls made since the object was built or
\* clearCache was last called.
NoTools ==
    [state |-> "none", ragService |-> FALSE, fileCache |-> {},
     treeCache |-> FALSE, first |-> <<>>, got |-> <<>>, again |-> FALSE,
     fetches |-> [path \in AskedPaths |-> 0]]

\* new CodeAnalysisTools(githubService, ref, ragService?)
NewCodeAnalysisTools(ragService) ==
    /\ tools.state = "none"
    /\ tools' = [NoTools EXCEPT !.state = "constructed",
                                !.ragService = ragService]
    /\ UNCHANGED <<poolVars, ragVars, finder, agent, gen, search, ext, moreVars>>

\* A tool list that offers the vector search whatever was constructed.
ToolNamesAlwaysRAG(ragService) ==
    <<"read_file", "list_files", "search_code", "get_file_info",
      "search_similar_code">>

\* The names of the tools getTools() builds, in its order.
ToolNames(ragService) ==
    <<"read_file", "list_files", "search_code", "get_file_info">>
        \o (IF ragService THEN <<"search_similar_code">> ELSE <<>>)

\* getTools()
getTools ==
    /\ tools.state = "constructed"
    /\ tools' = [tools EXCEPT
           !.got = ToolNames(tools.ragService),
           !.first = IF tools.got = <<>>
                     THEN ToolNames(tools.ragService) ELSE @,
           !.again = tools.got # <<>>]
    /\ UNCHANGED <<poolVars, ragVars, finder, agent, gen, search, ext, moreVars>>

\* readFile(path) of a path not yet cached, fetched from GitHub:
\* this.fileCache.set(path, content).
ReadFileFetches(path) ==
    /\ tools.state = "constructed"
    /\ path \notin tools.fileCache
    /\ Truthy(getFileContent(path))
    /\ tools.fetches[path] < MaxFetches
    /\ tools' = [tools EXCEPT !.fileCache = @ \cup {path},
                              !.fetches[path] = @ + 1]
    /\ UNCHANGED <<poolVars, ragVars, finder, agent, gen, search, ext, moreVars>>

\* readFile(path) of a path not cached for which GitHub has no text: the
\* tool answers that the file was not found and caches nothing.
ReadFileFindsNothing(path) ==
    /\ tools.state = "constructed"
    /\ path \notin tools.fileCache
    /\ ~Truthy(getFileContent(path))
    /\ tools.fetches[path] < MaxFetches
    /\ tools' = [tools EXCEPT !.fetches[path] = @ + 1]
    /\ UNCHANGED <<poolVars, ragVars, finder, agent, gen, search, ext, moreVars>>

\* The file loop of searchCode over the first upTo blobs of the tree (the
\* loop leaves early once maxResults lines are found): a blob that is not
\* cached is fetched, and cached when the content is truthy.
RECURSIVE SearchLoop(_, _, _)
SearchLoop(t, k, upTo) ==
    IF k > upTo
    THEN t
    ELSE LET path == TreeBlobs[k]
         IN  SearchLoop(
                 IF path \in t.fileCache
                 THEN t
                 ELSE [t EXCEPT
                         !.fetches[path] = @ + 1,
                         !.fileCache =
                             IF Truthy(getFileContent(path))
                             THEN @ \cup {path} ELSE @],
                 k + 1, upTo)

\* searchCode(pattern, filePattern, maxResults): the tree is fetched when
\* it is not cached, then the blobs are searched in the order of the tree.
searchCode(upTo) ==
    /\ tools.state = "constructed"
    /\ LET t == SearchLoop([tools EXCEPT !.treeCache = TRUE], 1, upTo)
       IN  /\ \A path \in AskedPaths : t.fetches[path] <= MaxFetches
           /\ tools' = t
    /\ UNCHANGED <<poolVars, ragVars, finder, agent, gen, search, ext, moreVars>>

\* clearCache(): this.fileCache.clear(); this.treeCache = null.
clearCache ==
    /\ tools.state = "constructed"
    /\ tools' = [tools EXCEPT !.fileCache = {}, !.treeCache = FALSE,
                              !.fetches = [path \in AskedPaths |-> 0]]
    /\ UNCHANGED <<poolVars, ragVars, finder, agent, gen, search, ext, moreVars>>

\* listFiles(directory) without tree cache: this.treeCache = fetchTree().
ListFilesFetches ==
    /\ tools.state = "constructed"
    /\ ~tools.treeCache
    /\ tools' = [tools EXCEPT !.treeCache = TRUE]
    /\ UNCHANGED <<poolVars, ragVars, finder, agent, gen, search, ext, moreVars>>

(* ====================================================================== *)
(*        ChangelogGenerator.generate / generateWithFallback              *)
(* ====================================================================== *)
\* The commits generateFallback lists.
COMMITS_LISTED == 20

\* The i-th commit of a release: a sha of 9 digits and a message of a
\* subject line and a body line.
Commit(i) ==
    [sha |-> <<i, 0, 1, 2, 3, 4, 5, 6, i>>,
     message |-> <<"subject " \o ToString(i), "body">>]

PullRequest(j) == [number |-> j, title |-> "pr " \o ToString(j)]

\* ChangelogData with c commits and p pull requests.
ChangelogData(c, p) ==
    [commits |-> [i \in 1 .. c |-> Commit(i)],
     prs |-> [j \in 1 .. p |-> PullRequest(j)]]

DataPool ==
    {ChangelogData(c, p) : c \in 0 .. MaxCommits, p \in 0 .. MaxPRs}

\* A line of a changelog text.
Line(kind, n, ref, text) ==
    [kind |-> kind, n |-> n, ref |-> ref, text |-> text]

\* What the LLM answers.
LlmResponses ==
    {<<>>, <<Line("llm", 0, <<>>, "## features")>>}

\* `- [${commit.sha.substring(0, 7)}](${commit.html_url}) ${firstLine}`
CommitLine(commit) ==
    Line("commit", 0, SubSeq(commit.sha, 1, Min(7, Len(commit.sha))),
         commit.message[1])

\* `- [#${pr.number}](${pr.html_url}) ${pr.title}`
PRLine(pr) == Line("pr", pr.number, <<>>, pr.title)

\* A fallback that adds the summary line from 20 commits on.
generateFallbackFromTwenty(data) ==
    LET listed == Slice(data.commits, 0, COMMITS_LISTED)
    IN  <<Line("title", 0, <<>>, "changes"),
          Line("total", Len(data.commits), <<>>, "")>>
        \o (IF Len(data.prs) > 0
            THEN <<Line("section", 0, <<>>, "Pull Requests")>>
                    \o [j \in DOMAIN data.prs |-> PRLine(data.prs[j])]
            ELSE <<>>)
        \o <<Line("section", 0, <<>>, "commits")>>
        \o [i \in DOMAIN listed |-> CommitLine(listed[i])]
        \o (IF Len(data.commits) >= COMMITS_LISTED
            THEN <<Line("more", Len(data.commits) - COMMITS_LISTED, <<>>, "")>>
            ELSE <<>>)
        \o <<Line("footer", 0, <<>>, "generated")>>

\* generateFallback(data): the text, line by line.
generateFallback(data) ==
    LET listed == Slice(data.commits, 0, COMMITS_LISTED)
    IN  <<Line("title", 0, <<>>, "changes"),
          Line("total", Len(data.commits), <<>>, "")>>
        \o (IF Len(data.prs) > 0
            THEN <<Line("section", 0, <<>>, "Pull Requests")>>
                    \o [j \in DOMAIN data.prs |-> PRLine(data.prs[j])]
            ELSE <<>>)
        \o <<Line("section", 0, <<>>, "commits")>>
        \o [i \in DOMAIN listed |-> CommitLine(listed[i])]
        \o (IF Len(data.commits) > COMMITS_LISTED
            THEN <<Line("more", Len(data.commits) - COMMITS_LISTED, <<>>, "")>>
            ELSE <<>>)
        \o <<Line("footer", 0, <<>>, "generated")>>

\* No call of the generator: method is the method called, llm the outcome
\* of this.llm.invoke, response what it resolved with, result what the
\* caller receives.
NoGen ==
    [state |-> "none", method |-> "", data |-> ChangelogData(0, 0),
     llm |-> "none", response |-> <<>>, result |-> <<>>]

\* generate(data), to `await this.llm.invoke(prompt)`.
generate(data) ==
    /\ gen.state = "none"
    /\ gen' = [NoGen EXCEPT !.state = "awaiting", !.method = "generate",
                            !.data = data]
    /\ UNCHANGED <<poolVars, ragVars, finder, agent, search, ext, tools,
                   moreVars>>

\* generateWithFallback(data), to the await of the LLM inside generate.
generateWithFallback(data) ==
    /\ gen.state = "none"
    /\ gen' = [NoGen EXCEPT !.state = "awaiting",
                            !.method = "generateWithFallback", !.data = data]
    /\ UNCHANGED <<poolVars, ragVars, finder, agent, search, ext, tools,
                   moreVars>>

\* generateFallback(data) called by itself.
CallGenerateFallback(data) ==
    /\ gen.state = "none"
    /\ gen' = [NoGen EXCEPT !.state = "returned",
                            !.method = "generateFallback", !.data = data,
                            !.result = generateFallback(data)]
    /\ UNCHANGED <<poolVars, ragVars, finder, agent, search, ext, tools,
                   moreVars>>

\* this.llm.invoke resolves: generate returns the response, and so does
\* generateWithFallback.
LlmResolves(response) ==
    /\ gen.state = "awaiting"
    /\ gen' = [gen EXCEPT !.state = "returned", !.llm = "resolved",
                          !.response = response, !.result = response]
    /\ UNCHANGED <<poolVars, ragVars, finder, agent, search, ext, tools,
                   moreVars>>

\* A generateWithFallback whose catch throws the error on.
LlmRejectsRethrown ==
    /\ gen.state = "awaiting"
    /\ gen' = [gen EXCEPT !.state = "threw", !.llm = "rejected"]
    /\ UNCHANGED <<poolVars, ragVars, finder, agent, search, ext, tools,
                   moreVars>>

\* this.llm.invoke rejects: generate throws a new Error; the catch of
\* generateWithFallback returns generateFallback(data).
LlmRejects ==
    /\ gen.state = "awaiting"
    /\ gen' = IF gen.method = "generate"
              THEN [gen EXCEPT !.state = "threw", !.llm = "rejected"]
              ELSE [gen EXCEPT !.state = "returned", !.llm = "rejected",
                               !.result = generateFallback(gen.data)]
    /\ UNCHANGED <<poolVars, ragVars, finder, agent, search, ext, tools,
                   moreVars>>

\* The caller has the text or the error; the next call starts afresh.
GenSettles ==
    /\ gen.state \in {"returned", "threw"}
    /\ gen' = NoGen
    /\ UNCHANGED <<poolVars, ragVars, finder, agent, search, ext, tools,
                   moreVars>>

\* No extractIdentifiers call yet on the file drawn; of a call, results
\* holds what the calls on that file returned, in call order.
NoExt == [state |-> "none"]
ExtOf(fileChange) ==
    [state |-> "drawn", fileChange |-> fileChange, results |-> <<>>]

\* The files of the generated texts: the text as patch, as content without
\* patch, and a file with neither.
ExtFiles ==
    {[filename |-> "x.ts", status |-> "modified", content |-> "",
      patch |-> name, changes |-> 1] : name \in GenTextNames}
    \cup {[filename |-> "x.ts", status |-> "added", content |-> name,
           patch |-> "", changes |-> 1] : name \in {"t3d3s1", "t2d0s0"}}
    \cup {ChangedGone}

\* this.extractIdentifiers(file), at most twice on one file.
ExtractCalled ==
    /\ ext.state \in {"drawn", "returned"}
    /\ Len(ext.results) < 2
    /\ ext' = [ext EXCEPT !.state = "returned",
           !.results = Append(@, extractIdentifiers(ext.fileChange))]
    /\ UNCHANGED <<poolVars, ragVars, finder, agent, gen, search, tools,
                   moreVars>>


\* No call of the other operations is in progress.
\* No getPreviousRelease call in progress.  A result is the list of the
\* value returned: empty for null.
NoGithub ==
    [state |-> "none", currentTag |-> "", releases |-> <<>>,
     failed |-> FALSE, result |-> <<>>]

\* run() not started.  Of a run: release is the id of the release found for
\* the tag (0: none), enableRAG is the input, vectorStore tells
\* whether the run's RAGService holds an index, indexFailed whether the
\* indexing try block was left by its catch, candidates is the number of
\* candidates found, agentStarted whether generateWithTools was called,
\* method names the generator call that made the changelog, and cause the
\* step whose failure ended the run with setFailed.
NoWorkflow ==
    [state |-> "none", release |-> 0, enableRAG |-> FALSE,
     vectorStore |-> FALSE,
     indexFailed |-> FALSE, candidates |-> 0, agentStarted |-> FALSE,
     method |-> "", cause |-> "", warnings |-> 0]

\* No analyzeImpactWithTools call in progress.  Of a call: messages is the
\* length of the conversation, toolCalls the number of iterations that
\* ended with a tool call, toolFailures how many of them failed, noToolAt
\* the iteration whose response carried no tool call (0: none) and
\* responseText that response.
NoLegacy ==
    [state |-> "none", iterationCount |-> 0, messages |-> 0,
     finalResponse |-> "", toolCalls |-> 0, toolFailures |-> 0,
     noToolAt |-> 0, responseText |-> "", result |-> ""]

InitMore ==
    /\ github = NoGithub
    /\ workflow = NoWorkflow
    /\ legacy = NoLegacy

InitRest ==
    /\ gen = NoGen
    /\ search = NoSearch
    /\ ext = NoExt
    /\ tools = NoTools
    /\ InitMore

\* The service as constructed: no vector store, no call; the cache
\* directory starts empty.
InitService ==
    /\ embeddingModel = "m1"
    /\ cache = [h \in {} |-> 0]
    /\ vectorStore = NoStore
    /\ call = NoCall
    /\ workers = [w \in 0 .. ((IF nServers > 1 THEN nServers ELSE 1) - 1)
                     |-> IdleWorker]
    /\ hist = HistWith([h \in {} |-> 0], NoStore)
    /\ yielded = [h \in {} |-> 0]

\* The balancer as constructed: currentIndex = 0, no call in progress.
InitBalancer ==
    /\ currentIndex = 0
    /\ calls = [c \in CallIds |-> IdleCall]
    /\ picks = <<>>

Init ==
    /\ nServers \in 1 .. MaxServerUrls
    /\ InitService
    /\ InitBalancer
    /\ healthy = Servers
    /\ finder = NoFinder
    /\ agent = NoAgent
    /\ InitRest

\* The servers' health is fixed for a behaviour of the pool: any subset.
InitPool ==
    /\ nServers \in 1 .. MaxServers
    /\ InitService
    /\ InitBalancer
    /\ healthy \in SUBSET Servers
    /\ finder = NoFinder
    /\ agent = NoAgent
    /\ InitRest

Next ==
    \/ \E fileChanges \in FileLists : indexFiles(fileChanges)
    \/ \E w \in DOMAIN workers : TimerFires(w)
    \/ \E w \in DOMAIN workers : EmbedReturns(w)
    \/ \E w \in DOMAIN workers : EmbedThrows(w)
    \/ \E failWrites \in SUBSET (0 .. (call.cacheMisses - 1)) :
           PipelineReturns(failWrites)
    \/ CallSettles
    \/ \E model \in Models : NewService(model)

Spec == Init /\ [][Next]_vars

SpecPool == InitPool /\ [][NextPool]_vars

\* Runs over files that share one content, with a cache directory that the
\* restore step may hand back damaged.
InitCache ==
    /\ nServers = 1
    /\ InitService
    /\ InitBalancer
    /\ healthy = Servers
    /\ finder = NoFinder
    /\ agent = NoAgent
    /\ InitRest

NextCache ==
    \/ \E fileChanges \in ListsOver(SharedPool) : indexFiles(fileChanges)
    \/ \E w \in DOMAIN workers : TimerFires(w)
    \/ \E w \in DOMAIN workers : EmbedReturns(w)
    \/ \E w \in DOMAIN workers : EmbedThrows(w)
    \/ \E failWrites \in SUBSET (0 .. (call.cacheMisses - 1)) :
           PipelineReturns(failWrites)
    \/ CallSettles
    \/ \E model \in Models : NewService(model)
    \/ \E hash \in DOMAIN cache, kind \in DamageKinds :
           CacheFileDamaged(hash, kind)

SpecCache == InitCache /\ [][NextCache]_vars

\* The candidate search runs on a service whose indexFiles either indexed
\* the code base or failed before building the store (action.ts 134-147).
InitCandidates ==
    /\ nServers = 1
    /\ InitService
    /\ InitBalancer
    /\ healthy = Servers
    /\ finder = NoFinder
    /\ agent = NoAgent
    /\ InitRest

IndexBuilt ==
    /\ finder.state = "none"
    /\ ~vectorStore.present
    /\ vectorStore' = IndexedStore
    /\ UNCHANGED <<poolVars, embeddingModel, cache, call, workers, hist,
                   yielded, finder, agent, restVars>>

NextCandidates ==
    \/ IndexBuilt
    \/ \E fileChanges \in ListsOver(ChangedPool) :
           findAffectedFileCandidates(fileChanges)
    \/ \E results \in similaritySearch(2) : SearchReturns(results)
    \/ SearchThrows
    \/ FinderSettles

SpecCandidates == InitCandidates /\ [][NextCandidates]_vars

\* The searches of a run, on a service whose index is built, fails to be
\* built, or is cleared.
InitSearch ==
    /\ nServers = 1
    /\ InitService
    /\ InitBalancer
    /\ healthy = Servers
    /\ finder = NoFinder
    /\ agent = NoAgent
    /\ InitRest

NextSearch ==
    \/ IndexBuilt
    \/ IndexFails
    \/ CallSettles
    \/ clear
    \/ \E query \in Queries : searchRelevantCode(query)
    \/ \E results \in similaritySearch(topK) : SearchCodeReturns(results)
    \/ SearchCodeThrows
    \/ SearchSettles
    \/ \E fileChanges \in ListsOver({ChangedA}) :
           findAffectedFileCandidates(fileChanges)
    \/ \E results \in similaritySearch(2) : SearchReturns(results)
    \/ SearchThrows
    \/ FinderSettles

SpecSearch == InitSearch /\ [][NextSearch]_vars

\* A run that builds the tools, with or without the RAG service, uses them,
\* and builds or clears the index meanwhile.
InitTools ==
    /\ nServers = 1
    /\ InitService
    /\ InitBalancer
    /\ healthy = Servers
    /\ finder = NoFinder
    /\ agent = NoAgent
    /\ InitRest

NextTools ==
    \/ \E ragService \in BOOLEAN : NewCodeAnalysisTools(ragService)
    \/ getTools
    \/ \E path \in AskedPaths : ReadFileFetches(path)
    \/ \E path \in AskedPaths : ReadFileFindsNothing(path)
    \/ \E upTo \in 0 .. Len(TreeBlobs) : searchCode(upTo)
    \/ clearCache
    \/ ListFilesFetches
    \/ IndexBuilt
    \/ clear

SpecTools == InitTools /\ [][NextTools]_vars

\* extractIdentifiers on any generated file.
InitExtract ==
    /\ nServers = 1
    /\ InitService
    /\ InitBalancer
    /\ healthy = Servers
    /\ finder = NoFinder
    /\ agent = NoAgent
    /\ gen = NoGen
    /\ search = NoSearch
    /\ tools = NoTools
    /\ InitMore
    /\ ext \in {ExtOf(fileChange) : fileChange \in ExtFiles}

NextExtract == ExtractCalled

SpecExtract == InitExtract /\ [][NextExtract]_vars

\* The calls of the changelog generator.
InitGenerator ==
    /\ nServers = 1
    /\ InitService
    /\ InitBalancer
    /\ healthy = Servers
    /\ finder = NoFinder
    /\ agent = NoAgent
    /\ InitRest

NextGenerator ==
    \/ \E data \in DataPool : generate(data)
    \/ \E data \in DataPool : generateWithFallback(data)
    \/ \E data \in DataPool : CallGenerateFallback(data)
    \/ \E response \in LlmResponses : LlmResolves(response)
    \/ LlmRejects
    \/ GenSettles

SpecGenerator == InitGenerator /\ [][NextGenerator]_vars

InitAgent ==
    /\ nServers = 1
    /\ InitService
    /\ InitBalancer
    /\ healthy = Servers
    /\ finder = NoFinder
    /\ agent = NoAgent
    /\ InitRest

NextAgent ==
    \/ analyzeImpactWithLangChainTools
    \/ \E response \in Responses(agent.iteration + 1) :
           BackendResponds(response)
    \/ BackendThrows
    \/ \E result \in ToolOutputs : ToolReturns(result)
    \/ ToolThrows

SpecAgent == InitAgent /\ [][NextAgent]_vars

(* ====================================================================== *)
(*                     Properties of the balancer                         *)
(* ====================================================================== *)
Started(c) == calls[c].pc # "idle"

\* The attempts of call c so far went to consecutive servers, cyclically.
RoundRobinFromFirst(t) ==
    \A k \in 1 .. Len(t) : t[k] = (t[1] + (k - 1)) % nServers

\* C4: with exactly one healthy server and no other call in progress during
\* it, an embedQuery / embedDocuments call never throws; its attempts go to
\* distinct servers in round-robin order from the cursor it started at,
\* every attempt before the last failed, and it returns at the healthy
\* server, after exactly as many attempts as it takes to reach that server
\* from the starting cursor (at most N), trying no server after it.
C4_FailoverOneHealthy ==
    \A c \in CallIds :
        (Started(c) /\ calls[c].alone /\ Cardinality(healthy) = 1) =>
            LET t == calls[c].tried
                h == CHOOSE s \in healthy : TRUE
            IN  /\ calls[c].pc # "thrown"
                /\ Len(t) <= nServers
                /\ NoDup(t)
                /\ RoundRobinFromFirst(t)
                /\ \A k \in 1 .. (Len(t) - 1) : t[k] \notin healthy
                /\ calls[c].pc = "returned" =>
                      /\ t[Len(t)] = h
                      /\ calls[c].result = h
                      /\ Len(t) = ((h - t[1] + nServers) % nServers) + 1

\* Three servers, only server 1 healthy, the call starts at cursor 2: it
\* tries 2, wraps to 0, and returns at 1.
C4_Witness ==
    \E c \in CallIds :
        /\ nServers = 3
        /\ healthy = {1}
        /\ calls[c].alone
        /\ calls[c].pc = "returned"
        /\ calls[c].tried = <<2, 0, 1>>

\* C5: when every server fails, a call makes exactly N attempts, one per
\* server, then throws the error of its last attempt, and no call returns.
C5_FailoverNoneHealthy ==
    \A c \in CallIds :
        healthy = {} =>
            /\ calls[c].pc # "returned"
            /\ calls[c].pc = "thrown" =>
                  /\ calls[c].attempt = nServers
                  /\ Len(calls[c].tried) = nServers
                  /\ Range(calls[c].tried) = Servers
                  /\ calls[c].lastError = calls[c].tried[nServers]

\* C6: with calls interleaving on the one cursor, each call's attempts go to
\* distinct servers, a call throws only after every server has failed for
\* it, and no call throws while some server is healthy.
C6_FailoverInterleaved ==
    \A c \in CallIds :
        /\ NoDup(calls[c].tried)
        /\ calls[c].pc = "thrown" => Range(calls[c].tried) = Servers
        /\ healthy # {} => calls[c].pc # "thrown"

Occurrences(s, x) == Cardinality({k \in DOMAIN s : s[k] = x})

\* C7: the cursor stays in 0..N-1 and is one past the last selection; the
\* selections follow one another cyclically; any 2N consecutive selections
\* hold every server exactly twice.
C7_RoundRobin ==
    /\ currentIndex \in Servers
    /\ \A k \in 1 .. (Len(picks) - 1) :
           picks[k + 1] = (picks[k] + 1) % nServers
    /\ picks # <<>> => currentIndex = (picks[Len(picks)] + 1) % nServers
    /\ Len(picks) = 2 * nServers =>
           \A s \in Servers : Occurrences(picks, s) = 2

\* Six consecutive selections over three servers that start at server 1.
C7_Witness ==
    /\ nServers = 3
    /\ Len(picks) = 6
    /\ picks[1] = 1

(* ====================================================================== *)
(*                 Properties of the cache and the pipeline               *)
(* ====================================================================== *)
\* The vectors the backend computes for a list of chunks under the model.
VectorsOf(chunks) ==
    [j \in DOMAIN chunks |-> Embed(embeddingModel, chunks[j].pageContent)]

\* File i of the running call has content and the cache held, when the call
\* started, an entry for its digest written under the current model.
FreshEntry(i) ==
    LET f == call.fileChanges[i]
        d == calculateHash(f.content)
    IN  /\ f.content # ""
        /\ d \in DOMAIN hist.cacheBefore
        /\ hist.cacheBefore[d].modelName = embeddingModel

\* As FreshEntry, but the entry was written under another model.
StaleEntry(i) ==
    LET f == call.fileChanges[i]
        d == calculateHash(f.content)
    IN  /\ f.content # ""
        /\ d \in DOMAIN hist.cacheBefore
        /\ hist.cacheBefore[d].modelName # embeddingModel

\* C1: a file whose content an earlier run indexed and saved under the
\* current model takes the hit path, none of its chunks goes to the
\* embedding backend, and the hit returns the chunk texts and vectors that
\* the run which wrote the entry returned for that content.
C1_CacheIdempotence ==
    /\ \A k \in DOMAIN hist.hits :
           LET h == hist.hits[k]
           IN  h.hash \in DOMAIN yielded =>
                   /\ h.texts = yielded[h.hash].texts
                   /\ h.vectors = yielded[h.hash].vectors
    /\ call.state # "none" =>
           \A i \in DOMAIN call.fileChanges :
               FreshEntry(i) =>
                   /\ i \in Range(hist.hitIdx)
                   /\ \A k \in DOMAIN call.uncachedDocuments :
                          call.uncachedDocuments[k].metadata.filename
                              # call.fileChanges[i].filename

\* C2: every entry a call writes under a digest holds exactly the chunks of
\* the miss file with that digest (its content chunks, then its diff chunk
\* when it has a patch) and exactly the vectors of those chunks.
C2_CacheEntriesExact ==
    call.state = "returned" =>
        \A k \in DOMAIN hist.saved :
            LET s == hist.saved[k]
                f == call.fileChanges[hist.missIdx[k]]
            IN  s.ok =>
                    /\ s.hash = calculateHash(f.content)
                    /\ Texts(s.documents) = Texts(MissChunks(f))
                    /\ s.embeddings = VectorsOf(MissChunks(f))

\* C3: no hit returns a vector computed under another model than the
\* current one; every entry's vectors are of the model the entry names; a
\* file whose entry names another model takes the miss path; and a returned
\* call has only vectors of the current model and has left, under each
\* digest it saved, an entry naming the current model.
C3_ModelInvalidation ==
    /\ \A k \in DOMAIN hist.hits :
           \A j \in DOMAIN hist.hits[k].vectors :
               hist.hits[k].vectors[j].model = embeddingModel
    /\ \A d \in DOMAIN cache :
           \A j \in DOMAIN cache[d].embeddings :
               cache[d].embeddings[j].model = cache[d].modelName
    /\ call.state # "none" =>
           \A i \in DOMAIN call.fileChanges :
               StaleEntry(i) => i \in Range(hist.missIdx)
    /\ call.state = "returned" =>
           /\ \A j \in DOMAIN call.allEmbeddings :
                  call.allEmbeddings[j].model = embeddingModel
           /\ \A k \in DOMAIN hist.saved :
                  hist.saved[k].ok =>
                      /\ hist.saved[k].hash \in DOMAIN cache
                      /\ cache[hist.saved[k].hash].hash = hist.saved[k].hash
                      /\ cache[hist.saved[k].hash].modelName = embeddingModel

\* A returned call that found an entry of another model and rewrote it.
C3_Witness ==
    /\ call.state = "returned"
    /\ \E k \in DOMAIN hist.saved :
           /\ hist.saved[k].ok
           /\ hist.saved[k].hash \in DOMAIN hist.cacheBefore
           /\ hist.cacheBefore[hist.saved[k].hash].modelName # embeddingModel
           /\ StaleEntry(hist.missIdx[k])

\* C8: the vector list a returned call assembled from its batches is in the
\* order of the miss chunks: as long as that list, and its k-th vector is
\* the embedding of the k-th miss chunk.
C8_BatchOrder ==
    call.state = "returned" =>
        /\ Len(call.newEmbeddings) = Len(call.uncachedDocuments)
        /\ call.newEmbeddings = VectorsOf(call.uncachedDocuments)

\* Three batches, two workers, and the batches completed in the order
\* 1, 2, 0.
C8_Witness ==
    /\ call.state = "returned"
    /\ Concurrency = 2
    /\ NumBatches(call.uncachedDocuments) = 3
    /\ hist.completion = <<1, 2, 0>>

ClaimedIndices == [k \in DOMAIN hist.claims |-> hist.claims[k][2]]

\* C9: no batch index is claimed twice, sent twice or completed twice, and
\* a call that returns after a pipeline has completed every batch index
\* 0..B-1 exactly once.
C9_ExclusiveClaim ==
    /\ NoDup(ClaimedIndices)
    /\ \A a, b \in hist.sent : a[2] = b[2] => a = b
    /\ NoDup(hist.completion)
    /\ (call.state = "returned" /\ Len(call.uncachedDocuments) > 0) =>
           /\ Len(hist.completion) = NumBatches(call.uncachedDocuments)
           /\ Range(hist.completion) =
                  0 .. (NumBatches(call.uncachedDocuments) - 1)
           /\ \A k \in DOMAIN call.results : call.results[k].index = k - 1

\* Two workers shared three batches: worker 0 took batch 0 and batch 2.
C9_Witness ==
    /\ call.state = "returned"
    /\ hist.claims = <<<<0, 0>>, <<1, 1>>, <<0, 2>>>>

\* C10: once the request of any batch has failed, the call is rejected (it
\* returns nothing), has saved no cache entry, and the cache and the vector
\* store are as the call found them.
C10_AllOrNothing ==
    hist.failed # {} =>
        /\ call.state = "rejected"
        /\ hist.saved = <<>>
        /\ cache = hist.cacheBefore
        /\ vectorStore = hist.storeBefore

\* A rejected call that had a cache hit and a successfully embedded batch,
\* on a service whose vector store held an earlier index.
C10_Witness ==
    /\ hist.failed # {}
    /\ call.cacheHits >= 1
    /\ Len(call.results) >= 1
    /\ vectorStore.present

(* ====================================================================== *)
(*                Properties of the candidate search                      *)
(* ====================================================================== *)
\* C18 Candidate self-exclusion: no candidate's path is the path of the
\* changed file whose identifier made the query that found it.
C18_SelfExclusion ==
    \A k \in DOMAIN finder.candidates :
        LET c == finder.candidates[k]
        IN  /\ c.filename # c.reason.file
            /\ \E i \in DOMAIN finder.topFiles :
                   /\ finder.topFiles[i].filename = c.reason.file
                   /\ c.identifier \in
                          Range(QueryIdentifiers(finder.topFiles, i))

\* A call that returned candidates although some query's results held a
\* chunk of the changed file the query came from: the changed file is in
\* the index and is not among the candidates.
C18_Witness ==
    /\ finder.state = "returned"
    /\ finder.fileChanges = <<ChangedA>>
    /\ finder.queries = 3
    /\ Len(finder.candidates) = 2
    /\ finder.candidates[1].filename = IndexedName(MaxIndexed)
    /\ finder.candidates[2].filename = IndexedName(2)

\* C19 Changed files are never candidates: no candidate's path is the path
\* of any file of the fileChanges list of the call.
C19_NoChangedFile ==
    \A k \in DOMAIN finder.candidates :
        \A i \in DOMAIN finder.fileChanges :
            finder.candidates[k].filename # finder.fileChanges[i].filename

\* C20 Candidate cap: never more than 7 candidates, and with the 7th
\* recorded the call has returned without a further query or a further
\* inspected result.
C20_CandidateCap ==
    /\ Len(finder.candidates) <= 7
    /\ finder.afterCap = 0
    /\ Len(finder.candidates) = 7 => finder.state = "returned"

\* The cap is reached with a query, a result or a file still to come: the
\* 7th candidate was the first result of a query that was not the last.
C20_Witness ==
    /\ finder.state = "returned"
    /\ Len(finder.candidates) = 7
    /\ Len(finder.topFiles) = 2
    /\ finder.queries = 4
    /\ finder.candidates[7].identifier = finder.candidates[6].identifier
    /\ finder.queries <
           Len(QueryIdentifiers(finder.topFiles, 1))
               + Len(QueryIdentifiers(finder.topFiles, 2))

\* C21 Candidate deduplication: the candidates of a call have pairwise
\* distinct paths, and each carries the identifier whose query found its
\* path first.
C21_Deduplicated ==
    /\ \A j, k \in DOMAIN finder.candidates :
           j # k => finder.candidates[j].filename # finder.candidates[k].filename
    /\ \A k \in DOMAIN finder.candidates :
           [filename |-> finder.candidates[k].filename,
            identifier |-> finder.candidates[k].identifier]
               \in finder.firstFound

\* A call returned after a later identifier, of a later changed file, found
\* a path that was recorded already.
C21_Witness ==
    /\ finder.state = "returned"
    /\ finder.refound
    /\ Len(finder.topFiles) = 2
    /\ Len(finder.candidates) = 3
    /\ finder.queries = 6

(* ====================================================================== *)
(*                 Properties of the tool-calling loop                    *)
(* ====================================================================== *)
\* The iteration that took branch turn is completed: the loop awaits the
\* next response, or the budget ended with that iteration.
TurnDone(turn) ==
    /\ agent.turn = turn
    /\ agent.state \in {"awaiting", "returned"}

BudgetRespected ==
    /\ agent.invocations <= MAX_ITERATIONS
    /\ agent.iteration <= MAX_ITERATIONS
    /\ agent.iteration = MAX_ITERATIONS => agent.state = "returned"
    /\ agent.state = "returned" => agent.outcome = "text" /\ agent.result # ""

\* The position of the call in its two loops: every backend call and every
\* tool call that settles moves it forward.
AgentProgress ==
    (IF agent.state = "none" THEN 0 ELSE 1)
        + agent.invocations * (MaxToolCalls + 2) + agent.toolIdx

\* C11 Agent termination: whatever the backend answers, the backend is
\* invoked at most MAX_ITERATIONS times, the call has returned once the
\* budget is used up, what it returns is a non-empty text, and every backend
\* call or tool call that settles brings the call nearer to its end (so the
\* call returns after at most MAX_ITERATIONS * (MaxToolCalls + 1) of them).
C11_AgentTermination ==
    /\ []BudgetRespected
    /\ [][AgentProgress' > AgentProgress]_vars

\* The budget is used up by 40 tool turns and the last tool result is empty.
C11_Witness ==
    /\ agent.state = "returned"
    /\ agent.invocations = MAX_ITERATIONS
    /\ agent.turn = "tools"
    /\ agent.last.role = "tool"
    /\ agent.last.content = ""
    /\ agent.result = LastResponseFallback

\* C12 Terminal transition: the first response without tool call and with
\* text ends the loop at its iteration k; that text is returned, the backend
\* was invoked k times and every tool call requested before was executed.
C12_TerminalTransition ==
    agent.turn = "final" =>
        /\ agent.state = "returned"
        /\ agent.result = agent.response.content
        /\ Len(agent.response.tool_calls) = 0
        /\ agent.invocations = agent.iteration + 1
        /\ agent.allRun

\* C13 Tool-turn bookkeeping: an iteration whose response carries n >= 1
\* tool toolCalls pushes the response and then n tool results, the k-th bound to
\* the k-th call, whatever the requested names, and the loop awaits the next
\* response.
C13_ToolTurnBookkeeping ==
    TurnDone("tools") =>
        LET toolCalls == agent.response.tool_calls
        IN  /\ Len(toolCalls) >= 1
            /\ Len(agent.appended) = 1 + Len(toolCalls)
            /\ agent.appended[1] = agent.response
            /\ \A k \in DOMAIN toolCalls :
                   /\ agent.appended[k + 1].role = "tool"
                   /\ agent.appended[k + 1].tool_call_id = toolCalls[k].id
            /\ agent.state = "awaiting" \/ agent.iteration = MAX_ITERATIONS

\* C14 Tool failure containment: a tool call that throws does not end the
\* run; the iteration pushes an error result bound to its id, the toolCalls
\* after it are still invoked and answered, and the loop goes on.
C14_ToolFailureContained ==
    /\ agent.threw # {} => agent.turn # "caught"
    /\ TurnDone("tools") /\ agent.threw # {} =>
          LET toolCalls == agent.response.tool_calls
              results == Tail(agent.appended)
          IN  /\ \A k \in agent.threw :
                     \E m \in DOMAIN results :
                         /\ results[m].role = "tool"
                         /\ results[m].tool_call_id = toolCalls[k].id
                         /\ results[m].content = ToolErrorText
              /\ \A j \in DOMAIN toolCalls :
                     toolCalls[j].name \in AgentTools =>
                         /\ j \in agent.invoked
                         /\ \E m \in DOMAIN results :
                                results[m].tool_call_id = toolCalls[j].id
              /\ agent.state = "awaiting" \/ agent.iteration = MAX_ITERATIONS

\* The first of two toolCalls threw, the second ran, the loop awaits the backend.
C14_Witness ==
    /\ TurnDone("tools")
    /\ agent.state = "awaiting"
    /\ agent.threw = {1}
    /\ agent.invoked = {1, 2}
    /\ agent.appended[3].content = "file body"

\* C15 Result on budget exhaustion: with the budget used up the call
\* returns the last non-empty assistant content observed, or a fixed
\* fallback text when there was none.
C15_ExhaustionResult ==
    agent.state = "returned" /\ agent.turn \in {"tools", "empty"} =>
        IF agent.lastText # ""
        THEN agent.result = agent.lastText
        ELSE agent.result \in {LastResponseFallback, NoSummaryFallback}

\* C16 Reasoning-backend failure: a backend call that throws reaches the
\* caller as an error, not as a returned text.
C16_BackendFailureSurfaced ==
    agent.backendFailed => agent.outcome = "error"

\* C17 Empty-response handling: a response without tool call whose text is
\* empty or blank is pushed with one continuation prompt, the call does not
\* return, and the iteration counts against the budget.
C17_EmptyResponse ==
    TurnDone("empty") =>
        /\ Len(agent.response.tool_calls) = 0
        /\ Trim(agent.response.content) = ""
        /\ agent.appended = <<agent.response, UserMessage(NudgeText)>>
        /\ agent.last = UserMessage(NudgeText)
        /\ agent.iteration = agent.invocations
        /\ agent.iteration < MAX_ITERATIONS =>
               agent.state = "awaiting" /\ agent.result = ""

\* A blank response at the second iteration, after a tool turn.
C17_Witness ==
    /\ TurnDone("empty")
    /\ agent.state = "awaiting"
    /\ agent.response.content = " "
    /\ agent.iteration = 2
    /\ ~agent.allRun

(* ====================================================================== *)
(*                    Properties of the cache files                       *)
(* ====================================================================== *)
\* The record the running call found under the digest of its k-th hit.
HitEntry(k) == hist.cacheBefore[hist.hits[k].hash]

\* C22 Cache read failures are misses: a file is taken as a cache hit only
\* when its record parses, was written under the configured model and has one
\* vector per chunk; every other record is a miss, and every chunk handed to
\* the vector store comes with a vector.
C22_ReadFailuresAreMisses ==
    /\ \A k \in DOMAIN hist.hits :
           /\ HitEntry(k).parses
           /\ HitEntry(k).modelName = embeddingModel
           /\ Len(HitEntry(k).documents) = Len(HitEntry(k).embeddings)
    /\ vectorStore.present =>
           /\ Len(vectorStore.vectors) = Len(vectorStore.documents)
           /\ \A k \in DOMAIN vectorStore.vectors :
                  vectorStore.vectors[k].model # Undefined

\* The save loop of the call that has just returned, run again from the
\* cache the call found, with every write succeeding.
SaveLoopAllWritten ==
    SaveLoop(call, [fileStartIdx |-> 0, cache |-> hist.cacheBefore,
                    saved |-> <<>>], 0, {})

\* The last successful write of the call under digest h, 0 when there is none.
LastWritten(h) ==
    LET ks == {k \in DOMAIN hist.saved :
                  hist.saved[k].ok /\ hist.saved[k].hash = h}
    IN  IF ks = {} THEN 0 ELSE CHOOSE k \in ks : \A j \in ks : j <= k

SomeWriteFailed == \E k \in DOMAIN hist.saved : ~hist.saved[k].ok

\* C23 Cache write failures are non-fatal: when writes of a call fail, the
\* call still returns; the save loop has made the same saveToCache calls as
\* with every write succeeding, the cache holds the successful ones and is
\* otherwise as the call found it; the returned lists end with the miss
\* chunks and their new vectors, and the vector store holds the returned lists.
C23_WriteFailureNonFatal ==
    SomeWriteFailed =>
        /\ call.state = "returned"
        /\ Len(hist.saved) = Len(SaveLoopAllWritten.saved)
        /\ \A k \in DOMAIN hist.saved :
               hist.saved[k] = [SaveLoopAllWritten.saved[k] EXCEPT
                                   !.ok = hist.saved[k].ok]
        /\ \A h \in DOMAIN cache \cup DOMAIN hist.cacheBefore :
               /\ h \in DOMAIN cache
               /\ IF LastWritten(h) = 0
                  THEN h \in DOMAIN hist.cacheBefore
                       /\ cache[h] = hist.cacheBefore[h]
                  ELSE /\ cache[h].documents
                             = hist.saved[LastWritten(h)].documents
                       /\ cache[h].embeddings
                             = hist.saved[LastWritten(h)].embeddings
        /\ Len(call.allDocuments) = Len(call.allEmbeddings)
        /\ Slice(call.allDocuments,
                 Len(call.allDocuments) - Len(call.uncachedDocuments),
                 Len(call.allDocuments)) = call.uncachedDocuments
        /\ Slice(call.allEmbeddings,
                 Len(call.allEmbeddings) - Len(call.newEmbeddings),
                 Len(call.allEmbeddings)) = call.newEmbeddings
        /\ Len(call.newEmbeddings) = Len(call.uncachedDocuments)
        /\ vectorStore = [present |-> TRUE, vectors |-> call.allEmbeddings,
                          documents |-> call.allDocuments]

\* Two miss files: the write of the first fails, the second is persisted.
C23_Witness ==
    /\ call.state = "returned"
    /\ Len(hist.saved) = 2
    /\ ~hist.saved[1].ok
    /\ hist.saved[2].ok
    /\ hist.saved[1].hash \notin DOMAIN cache
    /\ hist.saved[2].hash \in DOMAIN cache
    /\ vectorStore.present

\* C24 Cache entry shape: every saveToCache call of the indexing call passes
\* as many vectors as chunks, and so does every record of the cache
\* directory the service has written.
C24_EntryShape ==
    /\ \A k \in DOMAIN hist.saved :
           Len(hist.saved[k].documents) = Len(hist.saved[k].embeddings)
    /\ \A h \in DOMAIN cache :
           Len(cache[h].documents) = Len(cache[h].embeddings)

\* A call with one hit file and one miss file has written the miss file's
\* record of several chunks.
C24_Witness ==
    /\ call.state = "returned"
    /\ call.cacheHits = 1
    /\ Len(hist.saved) = 1
    /\ hist.saved[1].ok
    /\ Len(hist.saved[1].documents) > 1
    /\ Len(cache[hist.saved[1].hash].embeddings) > 1

\* C25 Deterministic cache writes: two saveToCache calls of one indexing call
\* under the same digest pass the same chunks and the same vectors.
C25_DeterministicWrites ==
    \A j, k \in DOMAIN hist.saved :
        hist.saved[j].hash = hist.saved[k].hash =>
            /\ hist.saved[j].documents = hist.saved[k].documents
            /\ hist.saved[j].embeddings = hist.saved[k].embeddings

C27_FixedToolSet ==
    tools.got # <<>> =>
        /\ {tools.got[k] : k \in DOMAIN tools.got}
               = {"read_file", "list_files", "search_code", "get_file_info"}
                    \cup (IF tools.ragService
                          THEN {"search_similar_code"} ELSE {})
        /\ Len(tools.got) = IF tools.ragService THEN 5 ELSE 4
        /\ tools.first = tools.got

\* getTools() called again without RAG service, after files and the tree
\* were cached and with an index built.
C27_Witness ==
    /\ tools.again
    /\ ~tools.ragService
    /\ Len(tools.got) = 4
    /\ tools.fileCache # {}
    /\ tools.treeCache
    /\ vectorStore.present

\* The text extractIdentifiers reads of the file drawn, and what the pattern
\* battery captures in it.
ExtMatches ==
    PatternMatches(IF ext.fileChange.patch # "" THEN ext.fileChange.patch
                   ELSE ext.fileChange.content)

\* The position of the first capture equal to token.
FirstMatch(matches, token) ==
    CHOOSE k \in DOMAIN matches :
        /\ matches[k] = token
        /\ \A j \in 1 .. (k - 1) : matches[j] # token

\* C28 Identifier extraction contract: the returned list has at most 20
\* tokens, no token twice, every token is a capture of at least 3
\* characters, tokens come in the order of their first capture, no eligible
\* capture is skipped before the last returned one (none at all when fewer
\* than 20 are returned), and a second call on the file returns the same list.
C28_ExtractContract ==
    ext.state = "returned" =>
        LET matches == ExtMatches
        IN  \A c \in DOMAIN ext.results :
                LET r == ext.results[c]
                IN  /\ Len(r) <= 20
                    /\ \A i, j \in DOMAIN r : i # j => r[i] # r[j]
                    /\ \A i \in DOMAIN r :
                           /\ Len(r[i]) >= 3
                           /\ r[i] \in Range(matches)
                    /\ \A i \in 1 .. (Len(r) - 1) :
                           FirstMatch(matches, r[i])
                               < FirstMatch(matches, r[i + 1])
                    /\ \A k \in DOMAIN matches :
                           (/\ Len(matches[k]) >= 3
                            /\ matches[k] \notin Range(r))
                               => /\ Len(r) = 20
                                  /\ FirstMatch(matches, r[20]) < k
                    /\ r = ext.results[1]

\* Two calls on a text with more than 20 names, a repeated name and a short
\* one among the first 20: 20 tokens come back both times.
C28_Witness ==
    /\ ext.state = "returned"
    /\ Len(ext.results) = 2
    /\ Len(ext.results[2]) = 20
    /\ Len(ExtMatches) > 22
    /\ "ab" \in Range(SubSeq(ExtMatches, 1, 10))
    /\ \E k \in 2 .. 10 : ExtMatches[k] = "id1"

(* ====================================================================== *)
(*                 Properties of the changelog generator                  *)
(* ====================================================================== *)
\* C29 generateWithFallback never fails because of the LLM: it returns the
\* LLM's response as it came when the LLM call resolves and
\* generateFallback of the same data when it rejects, and never throws;
\* generate returns the response when the call resolves and throws when it
\* rejects.
C29_FallbackOnLlmFailure ==
    /\ gen.method = "generateWithFallback" =>
           /\ gen.state # "threw"
           /\ gen.llm = "resolved" =>
                  gen.state = "returned" /\ gen.result = gen.response
           /\ gen.llm = "rejected" =>
                  /\ gen.state = "returned"
                  /\ gen.result = generateFallback(gen.data)
    /\ gen.method = "generate" =>
           /\ gen.llm = "resolved" =>
                  gen.state = "returned" /\ gen.result = gen.response
           /\ gen.llm = "rejected" => gen.state = "threw"

\* generateWithFallback has returned the fallback text of a release with
\* commits and a pull request after the LLM call failed.
C29_Witness ==
    /\ gen.method = "generateWithFallback"
    /\ gen.state = "returned"
    /\ gen.llm = "rejected"
    /\ Len(gen.data.commits) = 2
    /\ Len(gen.data.prs) = 1
    /\ Len(gen.result) > 2

\* The lines of a kind in a text, in their order.
RECURSIVE LinesOf(_, _)
LinesOf(text, kind) ==
    IF text = <<>>
    THEN <<>>
    ELSE (IF Head(text).kind = kind THEN <<Head(text)>> ELSE <<>>)
            \o LinesOf(Tail(text), kind)

FallbackReturned ==
    /\ gen.state = "returned"
    /\ gen.method = "generateFallback" \/ gen.llm = "rejected"

InFlight(s) ==
    {w \in DOMAIN workers : workers[w].pc = "embed" /\ <<w, s>> \in hist.to}

\* C32 Worker pinning: with several servers, worker i has sent to server i
\* only, at most one pipeline request is in flight per server, and no
\* pipeline step moves the rotating pool (its index and its picks stay).
C32_WorkerPinning ==
    /\ [](nServers > 1 =>
            /\ \A p \in hist.to : p[2] = p[1]
            /\ \A s \in 0 .. (nServers - 1) : Cardinality(InFlight(s)) <= 1)
    /\ [][currentIndex' = currentIndex /\ picks' = picks]_vars

\* Two workers have each a request in flight, to different servers, while
\* batches remain.
C32_Witness ==
    /\ nServers = 2
    /\ workers[0].pc = "embed" /\ workers[1].pc = "embed"
    /\ workers[0].currentIndex # workers[1].currentIndex
    /\ InFlight(0) = {0} /\ InFlight(1) = {1}
    /\ call.nextBatchIndex < NumBatches(call.uncachedDocuments)

\* The workers the running call has launched.
Launched == {w \in DOMAIN workers : workers[w].pc # "idle"}

\* C33 Bounded worker pool: a call that runs the pipeline has launched one
\* worker per server when there are several servers and one worker
\* otherwise, and at no time are more embed requests in flight than there
\* are servers.
C33_BoundedWorkerPool ==
    /\ call.state \in {"running", "rejected"} =>
           /\ Cardinality(Launched) = IF nServers > 1 THEN nServers ELSE 1
           /\ Launched = DOMAIN workers
    /\ Cardinality({w \in DOMAIN workers : workers[w].pc = "embed"})
           <= nServers
    /\ \A k \in DOMAIN hist.claims :
           hist.claims[k][1] \in 0 .. (nServers - 1)

\* Three batches on two servers: two requests in flight, the third batch
\* not yet claimed.
C33_Witness ==
    /\ nServers = 2
    /\ call.state = "running"
    /\ NumBatches(call.uncachedDocuments) = 3
    /\ Cardinality({w \in DOMAIN workers : workers[w].pc = "embed"}) = 2
    /\ call.nextBatchIndex = 2


\* C39: once one worker's request has failed and the call has rejected, the
\* other workers go on: a worker whose request returns claims the next
\* unclaimed batch index while one is left and returns only when none is, a
\* worker whose timer runs sends its batch, and the workers only all stop
\* with every batch claimed or with their own failure; no step of theirs
\* changes the cache directory, the vector store or what a call has yielded,
\* and the call never returns.
C39_SurvivorsRunOn ==
    /\ [](call.state = "rejected" /\ Quiescent =>
            \A w \in DOMAIN workers :
                \/ workers[w].pc = "thrown"
                \/ /\ workers[w].pc = "done"
                   /\ call.nextBatchIndex >= NumBatches(call.uncachedDocuments))
    /\ [][call.state = "rejected" =>
            /\ cache' = cache
            /\ vectorStore' = vectorStore
            /\ yielded' = yielded
            /\ call'.state \in {"rejected", "none"}
            /\ call'.state = "rejected" =>
                 \A w \in DOMAIN workers :
                    /\ workers[w].pc = "delay" =>
                          workers'[w].pc \in {"delay", "embed"}
                    /\ workers[w].pc = "embed"
                          /\ workers'[w].pc \notin {"embed", "thrown"} =>
                          IF call.nextBatchIndex
                                < NumBatches(call.uncachedDocuments)
                          THEN /\ workers'[w] =
                                     [pc |-> "delay",
                                      currentIndex |-> call.nextBatchIndex]
                               /\ call'.nextBatchIndex
                                     = call.nextBatchIndex + 1
                          ELSE workers'[w].pc = "done"]_vars

\* One worker has failed on the first batch; the other has since completed
\* its batch, claimed the third after the rejection and sent it.
C39_Witness ==
    /\ nServers = 2
    /\ call.state = "rejected"
    /\ cache = hist.cacheBefore
    /\ \E w \in DOMAIN workers, v \in DOMAIN workers :
          /\ workers[w].pc = "thrown"
          /\ workers[v] = [pc |-> "embed", currentIndex |-> 2]
          /\ 2 \in hist.late
          /\ <<v, 2>> \in hist.sent
          /\ Len(call.results) = 1


\* ------------------------------------------------------------------------
\* Properties of the indexed lists
\* ------------------------------------------------------------------------

\* The chunk texts the hits of the call pushed, in file order.
RECURSIVE HitTexts(_, _)
HitTexts(hits, k) ==
    IF k > Len(hits) THEN <<>> ELSE hits[k].texts \o HitTexts(hits, k + 1)

\* The chunk texts of the call's miss files, in file order.
RECURSIVE MissTexts(_, _, _)
MissTexts(fileChanges, missIdx, k) ==
    IF k > Len(missIdx)
    THEN <<>>
    ELSE Texts(MissChunks(fileChanges[missIdx[k]]))
            \o MissTexts(fileChanges, missIdx, k + 1)

\* C40: in a call that has returned, the documents and the vectors have the
\* same length, the vector at each position is the embedding of the document
\* at that position under the configured model, the documents are the hit
\* chunks in file order followed by the miss chunks in file order, and a
\* non-empty result is what the vector store holds.
C40_IndexAlignment ==
    call.state = "returned" =>
        /\ Len(call.allDocuments) = Len(call.allEmbeddings)
        /\ \A i \in DOMAIN call.allDocuments :
              /\ call.allEmbeddings[i].model = embeddingModel
              /\ call.allEmbeddings[i].of = call.allDocuments[i].pageContent
        /\ Texts(call.allDocuments)
              = HitTexts(hist.hits, 1)
                  \o MissTexts(call.fileChanges, hist.missIdx, 1)
        /\ Len(call.allDocuments) > 0 =>
              /\ vectorStore.present
              /\ vectorStore.documents = call.allDocuments
              /\ vectorStore.vectors = call.allEmbeddings


\* ------------------------------------------------------------------------
\* Properties of the cache-hit path
\* ------------------------------------------------------------------------

\* Where the chunks of the call's k-th hit start in allDocuments (0-based).
RECURSIVE HitOffset(_, _)
HitOffset(hits, k) ==
    IF k = 1 THEN 0 ELSE HitOffset(hits, k - 1) + Len(hits[k - 1].texts)

\* C35: for every cache hit of a call, each chunk the hit put into
\* allDocuments carries the filename and status of the file looked up in
\* this call, has the text of the record's chunk at its position, and sits
\* at the position of that record's vector of the same index.
C35_HitReannotated ==
    call.state # "none" =>
        \A k \in DOMAIN hist.hits :
            LET hit == hist.hits[k]
                file == call.fileChanges[hit.file]
                entry == hist.cacheBefore[hit.hash]
                from == HitOffset(hist.hits, k)
            IN  /\ hit.texts = Texts(entry.documents)
                /\ hit.vectors = entry.embeddings
                /\ \A j \in DOMAIN hit.texts :
                      /\ call.allDocuments[from + j].metadata.filename
                            = file.filename
                      /\ call.allDocuments[from + j].metadata.status
                            = file.status
                      /\ call.allDocuments[from + j].pageContent
                            = entry.documents[j].pageContent
                      /\ j <= Len(entry.embeddings) =>
                            call.allEmbeddings[from + j] = entry.embeddings[j]

\* A call hits twice, the second time on a record that a file of another
\* path and status populated: its diff chunk still names that file.
C35_Witness ==
    /\ call.state # "none"
    /\ Len(hist.hits) = 2
    /\ LET from == HitOffset(hist.hits, 2)
           file == call.fileChanges[hist.hits[2].file]
       IN  \E j \in DOMAIN hist.hits[2].texts :
              /\ call.allDocuments[from + j].pageContent.kind = "diff"
              /\ call.allDocuments[from + j].pageContent.src # file.filename
              /\ call.allDocuments[from + j].pageContent.st # file.status
              /\ call.allDocuments[from + j].metadata.filename = file.filename


(* ====================================================================== *)
(*        RAGService.findAffectedFileCandidates on a large release        *)
(* ====================================================================== *)
\* The i-th changed file of a large release: files with a patch of four or
\* five identifiers, with a content of three, with a patch of none (and no
\* changed line counted), and files without content and patch that changed
\* the most lines; files 2 and 3 changed equally many.
BigFile(i) ==
    [filename |-> "big" \o ToString(i) \o ".ts",
     status |-> IF i % 5 = 4 THEN "removed" ELSE "modified",
     content |-> IF i % 5 = 2 THEN "c2" ELSE "",
     patch |-> CASE i % 5 = 1 -> "px1"
                 [] i % 5 = 3 -> "t5d0s0"
                 [] i % 5 = 0 -> "px3"
                 [] OTHER -> "",
     changes |-> CASE i % 5 = 4 -> 20 + i
                   [] i % 5 = 0 -> 0
                   [] i = 3 -> 2
                   [] OTHER -> i]

RECURSIVE Ascending(_)
Ascending(S) ==
    IF S = {}
    THEN <<>>
    ELSE LET m == CHOOSE x \in S : \A y \in S : x <= y
         IN  <<m>> \o Ascending(S \ {m})

Reversed(s) == [k \in DOMAIN s |-> s[Len(s) + 1 - k]]

\* The fileChanges lists of large releases: any of the files, in the order
\* of the comparison or against it.
BigLists ==
    LET picked == {Ascending(S) : S \in SUBSET (1 .. MaxChanged)}
        lists == {[k \in DOMAIN p |-> BigFile(p[k])] : p \in picked}
    IN  lists \cup {Reversed(l) : l \in lists}

\* The answers of the index to a candidate query that begin with the first
\* file of the code base.
FirstFileResults ==
    {r \in similaritySearch(2) : r[1].metadata.filename = IndexedName(1)}

InitRanking == InitCandidates

NextRanking ==
    \/ IndexBuilt
    \/ \E fileChanges \in BigLists : findAffectedFileCandidates(fileChanges)
    \/ \E results \in FirstFileResults : SearchReturns(results)
    \/ SearchThrows
    \/ FinderSettles

SpecRanking == InitRanking /\ [][NextRanking]_vars

\* C34: in a call of findAffectedFileCandidates the files searched are
\* changed files with content or patch, the 5 with the most changed lines
\* (all of them when they are fewer) in descending order; the identifier
\* queried is one of the first 3 extracted from its file; no identifier
\* brings more than 2 candidates; and at most 15 queries are issued.
C34_SearchBounds ==
    finder.state # "none" =>
        LET analyzable == FilterAnalyzable(finder.fileChanges)
            top == finder.topFiles
        IN  /\ Len(top) = Min(5, Len(analyzable))
            /\ NoDup(top)
            /\ \A i \in DOMAIN top :
                  /\ top[i] \in Range(finder.fileChanges)
                  /\ top[i].content # "" \/ top[i].patch # ""
                  /\ \A j \in DOMAIN top :
                        i < j => top[i].changes >= top[j].changes
                  /\ \A f \in Range(analyzable) \ Range(top) :
                        top[i].changes >= f.changes
            /\ finder.state = "searching" =>
                  /\ finder.fileIdx \in DOMAIN top
                  /\ finder.idIdx \in
                        1 .. Min(3, Len(extractIdentifiers(top[finder.fileIdx])))
            /\ \A k \in DOMAIN finder.candidates :
                  LET c == finder.candidates[k]
                  IN  /\ \E i \in DOMAIN top :
                            /\ top[i].filename = c.reason.file
                            /\ c.identifier \in
                                  Range(Slice(extractIdentifiers(top[i]), 0, 3))
                      /\ Cardinality({m \in DOMAIN finder.candidates :
                            finder.candidates[m].reason = c.reason}) <= 2
            /\ finder.queries <= 15

\* A release with more than five searchable files among others, one of the
\* searched files having more than three identifiers: the fifteenth query
\* has been issued and one identifier has brought two candidates.
C34_Witness ==
    /\ finder.queries = 15
    /\ Len(FilterAnalyzable(finder.fileChanges)) > 5
    /\ Len(finder.fileChanges) > Len(FilterAnalyzable(finder.fileChanges))
    /\ \E i \in DOMAIN finder.topFiles :
          Len(extractIdentifiers(finder.topFiles[i])) > 3
    /\ Len(finder.candidates) = 2
    /\ finder.candidates[1].reason = finder.candidates[2].reason


(* ====================================================================== *)
(*                   GitHubService.getPreviousRelease                     *)
(* ====================================================================== *)
\* The i-th release of the repository as listReleases reports it: besides
\* the fields of ReleaseInfo it carries others (draft), and its body is a
\* text, null, or absent.
Release(i) ==
    [id |-> i, tag_name |-> "v" \o ToString(i),
     body |-> CASE i % 3 = 0 -> "notes"
                [] i % 3 = 1 -> Null
                [] OTHER -> Undefined,
     draft |-> FALSE]

\* The lists listReleases may answer with, newest first in whatever order
\* the repository has them, and the tags asked for: the tags of the
\* releases and one that no release has.
ReleaseLists ==
    {rl \in UNION {[1 .. n -> {Release(i) : i \in 1 .. (MaxReleases + 1)}] :
                      n \in 0 .. MaxReleases} : NoDup(rl)}

ReleaseTags ==
    {Release(i).tag_name : i \in 1 .. (MaxReleases + 1)} \cup {"v0"}

\* releases.findIndex((r) => r.tag_name === currentTag), 0-based, -1 when no
\* release has the tag.
RECURSIVE findIndex(_, _, _)
findIndex(releases, currentTag, k) ==
    IF k > Len(releases)
    THEN -1
    ELSE IF releases[k].tag_name = currentTag
         THEN k - 1
         ELSE findIndex(releases, currentTag, k + 1)

\* The ReleaseInfo built from a listed release: body ?? null.
ReleaseInfo(previous) ==
    [id |-> previous.id, tag_name |-> previous.tag_name,
     body |-> IF previous.body = Undefined THEN Null ELSE previous.body]

\* A lookup that answers with the release listed before the current one.
previousReleaseNewer(releases, currentTag) ==
    LET currentIndex_r == findIndex(releases, currentTag, 1)
    IN  IF currentIndex_r = -1 \/ currentIndex_r = 0
        THEN <<>>
        ELSE <<ReleaseInfo(releases[currentIndex_r])>>

\* The body of the try block after the listing has resolved.
previousRelease(releases, currentTag) ==
    LET currentIndex_r == findIndex(releases, currentTag, 1)
    IN  IF currentIndex_r = -1 \/ currentIndex_r = Len(releases) - 1
        THEN <<>>
        ELSE <<ReleaseInfo(releases[currentIndex_r + 2])>>

\* async getPreviousRelease(currentTag), to the await of listReleases.
getPreviousRelease(currentTag) ==
    /\ github.state = "none"
    /\ github' = [NoGithub EXCEPT !.state = "listing",
                                  !.currentTag = currentTag]
    /\ UNCHANGED <<poolVars, ragVars, finder, agent, gen, search, ext, tools,
                   workflow, legacy>>

\* listReleases resolves with {data: releases}.
ListReleasesResolves(releases) ==
    /\ github.state = "listing"
    /\ github' = [github EXCEPT
          !.state = "returned",
          !.releases = releases,
          !.result = previousRelease(releases, github.currentTag)]
    /\ UNCHANGED <<poolVars, ragVars, finder, agent, gen, search, ext, tools,
                   workflow, legacy>>

\* listReleases rejects: the catch logs the error and returns null.
ListReleasesRejects ==
    /\ github.state = "listing"
    /\ github' = [github EXCEPT !.state = "returned", !.failed = TRUE,
                                !.result = <<>>]
    /\ UNCHANGED <<poolVars, ragVars, finder, agent, gen, search, ext, tools,
                   workflow, legacy>>

\* The caller has the answer.
ReleaseSettles ==
    /\ github.state = "returned"
    /\ github' = NoGithub
    /\ UNCHANGED <<poolVars, ragVars, finder, agent, gen, search, ext, tools,
                   workflow, legacy>>

InitReleases ==
    /\ nServers = 1
    /\ InitService
    /\ InitBalancer
    /\ healthy = Servers
    /\ finder = NoFinder
    /\ agent = NoAgent
    /\ InitRest

NextReleases ==
    \/ \E currentTag \in ReleaseTags : getPreviousRelease(currentTag)
    \/ \E releases \in ReleaseLists : ListReleasesResolves(releases)
    \/ ListReleasesRejects
    \/ ReleaseSettles

SpecReleases == InitReleases /\ [][NextReleases]_vars

\* The positions of the list whose release has the tag.
TagPositions(releases, tag) ==
    {k \in DOMAIN releases : releases[k].tag_name = tag}

\* C31: a getPreviousRelease call ends by returning, never by raising; it
\* returns null when the listing failed, when no listed release has the
\* current tag, or when the release with that tag is the last of the list,
\* and otherwise the id, tag and body (null when absent) of the release
\* listed right after it.
C31_PreviousRelease ==
    /\ github.state \in {"none", "listing", "returned"}
    /\ github.state = "returned" =>
          LET at == TagPositions(github.releases, github.currentTag)
          IN  IF github.failed \/ at = {} \/ Len(github.releases) \in at
              THEN github.result = <<>>
              ELSE \E k \in at :
                      /\ at = {k}
                      /\ Len(github.result) = 1
                      /\ github.result[1].id = github.releases[k + 1].id
                      /\ github.result[1].tag_name
                            = github.releases[k + 1].tag_name
                      /\ github.result[1].body \in
                            {github.releases[k + 1].body, Null}
                      /\ github.releases[k + 1].body # Undefined =>
                            github.result[1].body
                               = github.releases[k + 1].body

\* Three releases listed, the current tag that of the second: the third is
\* returned.
C31_Witness ==
    /\ github.state = "returned"
    /\ ~github.failed
    /\ Len(github.releases) = 3
    /\ github.releases[2].tag_name = github.currentTag
    /\ github.result = <<ReleaseInfo(github.releases[3])>>
    /\ github.releases[3].body = Undefined


\* ------------------------------------------------------------------------
\* Properties of the file memo
\* ------------------------------------------------------------------------

\* C36: between two clearCache calls, the content of a path is fetched from
\* GitHub at most once, whatever readFile and searchCode calls are made.
C36_FetchOncePerPath ==
    \A path \in AskedPaths : tools.fetches[path] <= 1

\* What the memo does ensure: a path whose fetch brought a text that is not
\* empty is fetched once.
FetchOncePerCachedPath ==
    \A path \in AskedPaths :
        Truthy(getFileContent(path)) => tools.fetches[path] <= 1


(* ====================================================================== *)
(*                           action.ts: run()                             *)
(* ====================================================================== *)
\* The most candidates findAffectedFileCandidates returns.
MAX_CANDIDATES == 7

\* run() up to the indexing try block: getReleaseByTag answers with the
\* release or with null (setFailed, return) and the data is collected; a
\* release without commits ends the run without a changelog, and without
\* enable-rag the basic generator is called at once.
RunStarts(release, enableRAG, commits) ==
    /\ workflow.state = "none"
    /\ workflow' =
          IF release = 0
          THEN [NoWorkflow EXCEPT !.state = "failed",
                                  !.cause = "getReleaseByTag"]
          ELSE [NoWorkflow EXCEPT
                  !.release = release,
                  !.enableRAG = enableRAG,
                  !.state = IF commits = 0 THEN "returned"
                            ELSE IF enableRAG THEN "indexing" ELSE "basic",
                  !.warnings = IF commits = 0 THEN 1 ELSE 0]
    /\ UNCHANGED <<poolVars, ragVars, finder, agent, gen, search, ext, tools,
                   github, legacy>>

\* getAllCodeFiles and indexFiles resolve: the store is built when there
\* was a file to index, else a warning is issued.
IndexingResolves(codeFiles) ==
    /\ workflow.state = "indexing"
    /\ workflow' = [workflow EXCEPT
          !.state = "finding",
          !.vectorStore = codeFiles > 0,
          !.warnings = IF codeFiles > 0 THEN @ ELSE @ + 1]
    /\ UNCHANGED <<poolVars, ragVars, finder, agent, gen, search, ext, tools,
                   github, legacy>>

\* getAllCodeFiles or indexFiles rejects: the catch warns, the store stays
\* null, and run() goes on to the generation.
IndexingRejects ==
    /\ workflow.state = "indexing"
    /\ workflow' = [workflow EXCEPT !.state = "finding",
                                    !.indexFailed = TRUE,
                                    !.warnings = @ + 1]
    /\ UNCHANGED <<poolVars, ragVars, finder, agent, gen, search, ext, tools,
                   github, legacy>>

\* findAffectedFileCandidates finds candidates (it needs the store for
\* that): the tools are built and generateWithTools is called.
CandidatesFound(n) ==
    /\ workflow.state = "finding"
    /\ workflow.vectorStore
    /\ n > 0
    /\ workflow' = [workflow EXCEPT !.state = "tools", !.candidates = n,
                                    !.agentStarted = TRUE]
    /\ UNCHANGED <<poolVars, ragVars, finder, agent, gen, search, ext, tools,
                   github, legacy>>

\* A run in which the error of getRetriever leaves run() by the outer catch.
NoCandidatesAborts ==
    /\ workflow.state = "finding"
    /\ workflow' =
          IF workflow.vectorStore
          THEN [workflow EXCEPT !.state = "enhanced"]
          ELSE [workflow EXCEPT !.state = "failed", !.cause = "getRetriever"]
    /\ UNCHANGED <<poolVars, ragVars, finder, agent, gen, search, ext, tools,
                   github, legacy>>

\* findAffectedFileCandidates returns [] (always so without a store):
\* getRetriever(3) returns the retriever and generateEnhanced is called, or
\* throws for want of a store, and the catch warns and calls generate.
NoCandidates ==
    /\ workflow.state = "finding"
    /\ workflow' =
          IF workflow.vectorStore
          THEN [workflow EXCEPT !.state = "enhanced"]
          ELSE [workflow EXCEPT !.state = "basic", !.warnings = @ + 1]
    /\ UNCHANGED <<poolVars, ragVars, finder, agent, gen, search, ext, tools,
                   github, legacy>>

\* generateWithTools or generateEnhanced resolves with the changelog.
SemanticResolves ==
    /\ workflow.state \in {"tools", "enhanced"}
    /\ workflow' = [workflow EXCEPT !.state = "updating",
                                    !.method = workflow.state]
    /\ UNCHANGED <<poolVars, ragVars, finder, agent, gen, search, ext, tools,
                   github, legacy>>

\* generateWithTools or generateEnhanced rejects: the catch warns and calls
\* generate.
SemanticRejects ==
    /\ workflow.state \in {"tools", "enhanced"}
    /\ workflow' = [workflow EXCEPT !.state = "basic", !.warnings = @ + 1]
    /\ UNCHANGED <<poolVars, ragVars, finder, agent, gen, search, ext, tools,
                   github, legacy>>

\* changelogGenerator.generate resolves with the changelog.
BasicResolves ==
    /\ workflow.state = "basic"
    /\ workflow' = [workflow EXCEPT !.state = "updating",
                                    !.method = "generate"]
    /\ UNCHANGED <<poolVars, ragVars, finder, agent, gen, search, ext, tools,
                   github, legacy>>

\* changelogGenerator.generate rejects: the outer catch calls setFailed.
BasicRejects ==
    /\ workflow.state = "basic"
    /\ workflow' = [workflow EXCEPT !.state = "failed", !.cause = "generate"]
    /\ UNCHANGED <<poolVars, ragVars, finder, agent, gen, search, ext, tools,
                   github, legacy>>

\* ragService.clear() and updateReleaseNotes: the output is set, or
\* setFailed is called when the update did not succeed or threw.
ReleaseNotesUpdated(success) ==
    /\ workflow.state = "updating"
    /\ workflow' = [workflow EXCEPT
          !.state = IF success THEN "done" ELSE "failed",
          !.vectorStore = FALSE,
          !.cause = IF success THEN @ ELSE "updateReleaseNotes"]
    /\ UNCHANGED <<poolVars, ragVars, finder, agent, gen, search, ext, tools,
                   github, legacy>>

\* The process ends; the next run of the action starts afresh.
RunEnds ==
    /\ workflow.state \in {"returned", "done", "failed"}
    /\ workflow' = NoWorkflow
    /\ UNCHANGED <<poolVars, ragVars, finder, agent, gen, search, ext, tools,
                   github, legacy>>

InitWorkflow == InitReleases

NextWorkflow ==
    \/ \E release \in 0 .. MaxReleases, enableRAG \in BOOLEAN,
          commits \in 0 .. 1 :
           RunStarts(release, enableRAG, commits)
    \/ \E codeFiles \in 0 .. 1 : IndexingResolves(codeFiles)
    \/ IndexingRejects
    \/ \E n \in 1 .. MAX_CANDIDATES : CandidatesFound(n)
    \/ NoCandidates
    \/ SemanticResolves
    \/ SemanticRejects
    \/ BasicResolves
    \/ BasicRejects
    \/ \E success \in BOOLEAN : ReleaseNotesUpdated(success)
    \/ RunEnds

SpecWorkflow == InitWorkflow /\ [][NextWorkflow]_vars

LEGACY_MAX_ITERATIONS == 10

\* The texts the function returns of its own.
MaxIterationsText == "max iterations reached, partial result used"
NotCompletedText == "analysis could not be completed"
AnalysisErrorText == "error during impact analysis"

\* The response texts without a tool call: an analysis, and the empty text.
FinalTexts == {"analysis", ""}

\* The top of `while (iterationCount < MAX_ITERATIONS)`: the next iteration
\* asks the backend, or the loop ends.
LegacyLoop(l) ==
    IF l.iterationCount < LEGACY_MAX_ITERATIONS
    THEN [l EXCEPT !.state = "llm", !.iterationCount = @ + 1]
    ELSE [l EXCEPT !.state = "after"]

\* The code after the loop: the counter at MAX_ITERATIONS replaces
\* finalResponse; return finalResponse || "...".
LegacyAfterLoop(l) ==
    LET finalResponse ==
            IF l.iterationCount >= LEGACY_MAX_ITERATIONS
            THEN MaxIterationsText
            ELSE l.finalResponse
    IN  [l EXCEPT !.state = "returned",
                  !.finalResponse = finalResponse,
                  !.result = IF finalResponse # "" THEN finalResponse
                             ELSE NotCompletedText]

\* analyzeImpactWithTools(candidates, fileChanges, toolExecutor), to the
\* first await of this.llm.invoke.
analyzeImpactWithTools ==
    /\ legacy.state = "none"
    /\ legacy' = LegacyLoop([NoLegacy EXCEPT !.messages = 1])
    /\ UNCHANGED <<poolVars, ragVars, finder, agent, gen, search, ext, tools,
                   github, workflow>>

\* The backend answers with a text that holds no tool call: it becomes
\* finalResponse, the loop is left by break, and the function returns.
LegacyFinalResponse(responseText) ==
    /\ legacy.state = "llm"
    /\ legacy' = LegacyAfterLoop(
          [legacy EXCEPT !.finalResponse = responseText,
                         !.responseText = responseText,
                         !.noToolAt = legacy.iterationCount])
    /\ UNCHANGED <<poolVars, ragVars, finder, agent, gen, search, ext, tools,
                   github, workflow>>

\* The backend answers with a text that holds a tool call, which parses:
\* toolExecutor.execute is awaited.
LegacyToolCall ==
    /\ legacy.state = "llm"
    /\ legacy' = [legacy EXCEPT !.state = "tool", !.toolCalls = @ + 1]
    /\ UNCHANGED <<poolVars, ragVars, finder, agent, gen, search, ext, tools,
                   github, workflow>>

\* The tool returns, or the call fails (JSON.parse or execute throws): the
\* response and the tool message are pushed either way and the loop goes on;
\* when it ends here, the code after the loop runs.
LegacyToolSettles(failed) ==
    /\ legacy.state = "tool"
    /\ LET l == LegacyLoop([legacy EXCEPT
                    !.messages = @ + 2,
                    !.toolFailures = IF failed THEN @ + 1 ELSE @])
       IN  legacy' = IF l.state = "after" THEN LegacyAfterLoop(l) ELSE l
    /\ UNCHANGED <<poolVars, ragVars, finder, agent, gen, search, ext, tools,
                   github, workflow>>

\* this.llm.invoke rejects: the outer catch returns the error text.
LegacyLlmRejects ==
    /\ legacy.state = "llm"
    /\ legacy' = [legacy EXCEPT !.state = "returned",
                                !.result = AnalysisErrorText]
    /\ UNCHANGED <<poolVars, ragVars, finder, agent, gen, search, ext, tools,
                   github, workflow>>

\* The caller has the text.
LegacySettles ==
    /\ legacy.state = "returned"
    /\ legacy' = NoLegacy
    /\ UNCHANGED <<poolVars, ragVars, finder, agent, gen, search, ext, tools,
                   github, workflow>>

InitLegacy == InitReleases

NextLegacy ==
    \/ analyzeImpactWithTools
    \/ \E responseText \in FinalTexts : LegacyFinalResponse(responseText)
    \/ LegacyToolCall
    \/ \E failed \in BOOLEAN : LegacyToolSettles(failed)
    \/ LegacyLlmRejects
    \/ LegacySettles

SpecLegacy == InitLegacy /\ [][NextLegacy]_vars

\* C38: a call in which the response of some iteration carried no tool call
\* returns the text of that response, and a call returns the text about the
\* maximum of iterations only when every one of the 10 iterations ended with
\* a tool call.
C38_FinalResponseReturned ==
    legacy.state = "returned" =>
        /\ legacy.noToolAt > 0 => legacy.result = legacy.responseText
        /\ legacy.result = MaxIterationsText =>
              legacy.toolCalls = LEGACY_MAX_ITERATIONS

\* What the loop does ensure: the text of a response without a tool call is
\* returned when it is not empty and came before the tenth iteration.
FinalResponseBeforeLast ==
    legacy.state = "returned" /\ legacy.noToolAt > 0
        /\ legacy.noToolAt < LEGACY_MAX_ITERATIONS
        /\ legacy.responseText # "" =>
            legacy.result = legacy.responseText

=============================================================================
